---- MODULE Spec2Model ----
(***************************************************************************)
(* The driver ring of tp2 (driver/src/driver.rs, driver/src/lib.rs) and    *)
(* the passenger client that talks to it (passenger/src/passenger.rs).     *)
(*                                                                         *)
(* Every driver is an actix actor: a mailbox served first-in first-out by  *)
(* one handler at a time.  Handlers that end in `.wait(ctx)` suspend the   *)
(* actor until their future resolves.  Sockets are modelled per stream:    *)
(* the bytes in flight towards the acceptor, the bytes in flight towards   *)
(* the connector, and which tasks still hold a half of the stream.         *)
(***************************************************************************)
EXTENDS Integers, Sequences, FiniteSets, TLC

MAX_DRIVERS == 5

\* Drivers that may be started in a run: ids 0 .. NumDrivers-1.
NumDrivers == 3

\* Streams that may be open at once between one connector and one acceptor.
MaxGen == 2

\* Drivers that may be started while the ring has not yet come to rest.
MaxConcurrent == 2

\* Times the coin of HandleOffer may fall on `decline` for one request.
MaxDeclines == 2

\* TripRequests one passenger process may send.
MaxRequests == 2

\* Option<u16>::None
None == -1

\* Option<WriteHalf<TcpStream>>::None
NoStream == <<>>

Drivers == 0..(NumDrivers - 1)

\* Passenger processes that may be run, by passenger id: one that is also the
\* id of a driver, two that are not.
Passengers == {2, 7, 9}

\* Passenger processes that are run while the ring serves trips.
MaxRiders == 2

\* NewCoordinator messages that circulate at the same time.
MaxResends == 3

\* The card numbers of the passengers' data are 0..MaxCard.
MaxCard == 3

\* A map with no entries (HashMap::new()); Option<HashMap>::None is <<>> too,
\* Some(m) is <<m>>.
EmptyMap == <<>>

Some(x) == <<x>>

IsSome(o) == o # <<>>

Unwrap(o) == o[1]

MapRemove(m, k) == [x \in (DOMAIN m) \ {k} |-> m[x]]

MapInsert(m, k, v) == [x \in (DOMAIN m) \cup {k} |-> IF x = k THEN v ELSE m[x]]

VARIABLES
    alive,      \* alive[d]: the process of driver d runs and listens on DRIVER_PORT + d
    driver,     \* driver[d]: the fields of struct Driver
    mailbox,    \* mailbox[d]: the actor's queue of messages, oldest first
    probing,    \* probing[d]: 0, or the offset the suspended ConnectToRight probes next
    backlog,    \* backlog[d]: streams the listener accepted and has not yet do_sent
    sock,       \* sock[c]: the state of the open stream c = <<connector, acceptor, k>>
    timers,     \* timers[d]: the trip tasks spawned by Handler<TripEnded>, oldest first
    pass        \* pass[p]: the passenger process p

vars == <<alive, driver, mailbox, probing, backlog, sock, timers, pass>>

----------------------------------------------------------------------------
\* struct Driver after Driver::start
NewDriver ==
    [ status                 |-> "Available",
      free_drivers_position  |-> <<>>,
      driver_left_id         |-> None,
      driver_left_write      |-> NoStream,
      driver_right_id        |-> None,
      driver_right_write     |-> NoStream,
      coordinator_id         |-> None,
      passengers             |-> <<>>,
      passengers_trips       |-> <<>>,
      trips_drivers_declined |-> <<>>,
      unresolved_messages    |-> EmptyMap,
      started_trips          |-> EmptyMap ]

\* The position a driver is started with (its CLI arguments x, y).
coordinates(d) ==
    CASE d = 0 -> <<0, 0>>
      [] d = 1 -> <<5, 5>>
      [] OTHER -> <<100, 100>>

----------------------------------------------------------------------------
\* Streams.  c[1] is the connector, c[2] the acceptor.

\* A fresh stream as TcpStream::connect returns it; the acceptor has not yet
\* handled its NewConnection.
NewStream ==
    [ data    |-> <<>>,        \* lines written by the connector, not yet read
      down    |-> <<>>,        \* lines written by the acceptor, not yet read
      rreader |-> TRUE,        \* the connector still holds its read half
      acc     |-> "pending",   \* the acceptor's side: pending | open | closed,
                               \* and for a passenger's stream adding | added
      blocked |-> FALSE ]      \* the acceptor's reader awaits driver.send(..)

\* The connector's end of a stream: a driver id, or a passenger's.
PassengerEnd(p) == MAX_DRIVERS + p

IsPassenger(c) == c[1] >= MAX_DRIVERS

PassengerOf(c) == c[1] - MAX_DRIVERS

\* The connector holds no half of c any more.
ConnectorClosed(sk, drv, ps, c) ==
    IF IsPassenger(c)
    THEN ps[PassengerOf(c)].stream # c
    ELSE /\ ~sk[c].rreader
         /\ drv[c[1]].driver_right_write # c

\* Streams both of whose ends are gone, or whose connector is gone with
\* nothing left to read, are forgotten.
Collect(sk, drv, ps) ==
    LET gone(c) == /\ ConnectorClosed(sk, drv, ps, c)
                   /\ \/ sk[c].acc = "closed"
                      \/ sk[c].acc = "open" /\ sk[c].data = <<>>
    IN [c \in {x \in DOMAIN sk : ~gone(x)} |-> sk[c]]

\* Stream ids an acceptor still refers to, in its state or its mailbox.
Referenced(drv, mb, c) ==
    \/ drv[c[2]].driver_left_write = c
    \/ /\ IsSome(drv[c[2]].passengers)
       /\ \E p \in DOMAIN Unwrap(drv[c[2]].passengers) :
             Unwrap(drv[c[2]].passengers)[p] = c
    \/ \E i \in 1..Len(mb[c[2]]) :
          \/ /\ mb[c[2]][i].type = "Disconnect"
             /\ mb[c[2]][i].new_stream = c
          \/ /\ mb[c[2]][i].type = "AddPassengerStream"
             /\ mb[c[2]][i].writer = c

FreeGens(s, t) ==
    {k \in 1..MaxGen : /\ <<s, t, k>> \notin DOMAIN sock
                       /\ ~Referenced(driver, mailbox, <<s, t, k>>)}

Min(S) == CHOOSE x \in S : \A y \in S : x <= y

\* write_all on the connector's half of c: the line reaches the acceptor
\* unless the acceptor has dropped the stream.
WriteData(sk, c, line) ==
    IF c \in DOMAIN sk /\ sk[c].acc # "closed"
    THEN [sk EXCEPT ![c].data = Append(@, line)]
    ELSE sk

\* write_all on the acceptor's half of c: the line reaches the connector
\* while its reader task lives.
WriteDown(sk, c, line) ==
    IF c \in DOMAIN sk /\ sk[c].rreader
    THEN [sk EXCEPT ![c].down = Append(@, line)]
    ELSE sk

----------------------------------------------------------------------------
\* The actor of d is free to take the next message of its mailbox.
Ready(d) ==
    /\ alive[d]
    /\ probing[d] = 0
    /\ mailbox[d] # <<>>

Next1(d) == Head(mailbox[d])

\* The mailbox after the handler of its head has run and do_sent `sends`.
Done(d, sends) == [mailbox EXCEPT ![d] = Tail(@) \o sends]

SendToRight(line) == [type |-> "SendToRight", msg |-> line]

\* Driver::start: bind, start the actor, do_send(ConnectToRight).
Start(d) ==
    /\ ~alive[d]
    /\ alive' = [alive EXCEPT ![d] = TRUE]
    /\ driver' = [driver EXCEPT ![d] = NewDriver]
    /\ mailbox' = [mailbox EXCEPT ![d] = <<[type |-> "ConnectToRight"]>>]
    /\ UNCHANGED <<probing, backlog, sock, timers, pass>>

\* handle_connections: the listener task hands an accepted stream to the actor.
HandleConnections(d) ==
    /\ alive[d]
    /\ backlog[d] # <<>>
    /\ mailbox' = [mailbox EXCEPT ![d] =
                      Append(@, [type |-> "NewConnection", stream |-> Head(backlog[d])])]
    /\ backlog' = [backlog EXCEPT ![d] = Tail(@)]
    /\ UNCHANGED <<alive, driver, probing, sock, timers, pass>>

----------------------------------------------------------------------------
\* Lines on the wire (enum DriverMsg, enum PassengerMsg).

Connect(from, id, cid) ==
    [tag |-> "Connect", from |-> from, id |-> id, coordinator_id |-> cid]

NewCoordinator(id) == [tag |-> "NewCoordinator", id |-> id]

DriverConnected(id) == [tag |-> "DriverConnected", driver_id |-> id]

----------------------------------------------------------------------------
\* Handler<ConnectToRight>, connect_to_right_driver.

\* The probe walks the ids downwards.
ProbeTarget_Leftwards(d, i) == (d + MAX_DRIVERS - i) % MAX_DRIVERS

\* The id probed at offset i.
ProbeTarget(d, i) == (d + i) % MAX_DRIVERS

\* Ports of ids that are never started refuse at once: the next offset, from
\* i on, whose id may listen at all; MAX_DRIVERS when the loop is exhausted.
NextOffset(d, i) ==
    LET S == {j \in i..(MAX_DRIVERS - 1) : ProbeTarget(d, j) \in Drivers}
    IN IF S = {} THEN MAX_DRIVERS ELSE Min(S)

\* The handler starts and suspends the actor in connect_to_right_driver.
ConnectToRight(d) ==
    /\ Ready(d)
    /\ Next1(d).type = "ConnectToRight"
    /\ mailbox' = Done(d, <<>>)
    /\ probing' = [probing EXCEPT ![d] = NextOffset(d, 1)]
    /\ UNCHANGED <<alive, driver, backlog, sock, timers, pass>>

\* The coordinator_id the joiner puts in its Connect, and the one it keeps.
JoinCoordinator(me, right_id) ==
    LET kept == IF ~(right_id < me.id) /\ me.coordinator_id = me.id
                THEN right_id
                ELSE me.coordinator_id
    IN [ kept |-> kept,
         sent |-> IF right_id < me.id THEN me.id ELSE kept ]

\* TcpStream::connect to ProbeTarget refused: try the next port.
ProbeRefused(d) ==
    /\ alive[d]
    /\ probing[d] \in 1..(MAX_DRIVERS - 1)
    /\ ~alive[ProbeTarget(d, probing[d])]
    /\ probing' = [probing EXCEPT ![d] = NextOffset(d, probing[d] + 1)]
    /\ UNCHANGED <<alive, driver, mailbox, backlog, sock, timers, pass>>

\* TcpStream::connect succeeded: the closure's Some((stream, driver_id)) arm.
ProbeConnected(d) ==
    /\ alive[d]
    /\ probing[d] \in 1..(MAX_DRIVERS - 1)
    /\ LET t == ProbeTarget(d, probing[d])
           me == [id |-> d, coordinator_id |-> driver[d].coordinator_id]
       IN /\ alive[t]
          /\ FreeGens(d, t) # {}
          /\ LET c == <<d, t, Min(FreeGens(d, t))>>
                 jc == JoinCoordinator(me, t)
             IN /\ driver' = [driver EXCEPT ![d].driver_right_write = c,
                                            ![d].driver_right_id = t,
                                            ![d].coordinator_id = jc.kept]
                /\ mailbox' = [mailbox EXCEPT ![d] =
                                  Append(@, SendToRight(Connect("Driver", d, jc.sent)))]
                /\ backlog' = [backlog EXCEPT ![t] = Append(@, c)]
                /\ sock' = Collect(sock @@ (c :> NewStream), driver', pass)
    /\ probing' = [probing EXCEPT ![d] = 0]
    /\ UNCHANGED <<alive, timers, pass>>

\* The None arm clears the neighbours and leaves coordinator_id as it was.
ProbeExhausted_KeepsCoordinator(d) ==
    /\ alive[d]
    /\ probing[d] = MAX_DRIVERS
    /\ driver' = [driver EXCEPT ![d].driver_right_id = None,
                                ![d].driver_right_write = NoStream,
                                ![d].driver_left_id = None,
                                ![d].driver_left_write = NoStream]
    /\ probing' = [probing EXCEPT ![d] = 0]
    /\ sock' = Collect(sock, driver', pass)
    /\ UNCHANGED <<alive, mailbox, backlog, timers, pass>>

\* Every port refused: the closure's None arm.
ProbeExhausted(d) ==
    /\ alive[d]
    /\ probing[d] = MAX_DRIVERS
    /\ driver' = [driver EXCEPT ![d].coordinator_id = d,
                                ![d].driver_right_id = None,
                                ![d].driver_right_write = NoStream,
                                ![d].driver_left_id = None,
                                ![d].driver_left_write = NoStream]
    /\ probing' = [probing EXCEPT ![d] = 0]
    /\ sock' = Collect(sock, driver', pass)
    /\ UNCHANGED <<alive, mailbox, backlog, timers, pass>>

\* Handler<SendToRight>: write the line to driver_right_write, if any.
HandleSendToRight(d) ==
    /\ Ready(d)
    /\ Next1(d).type = "SendToRight"
    /\ mailbox' = Done(d, <<>>)
    /\ sock' = IF driver[d].driver_right_write = NoStream
               THEN sock
               ELSE WriteData(sock, driver[d].driver_right_write, Next1(d).msg)
    /\ UNCHANGED <<alive, driver, probing, backlog, timers, pass>>

\* Handler<NewCoordinator> taking the sender, its left neighbour, for the
\* coordinator.
HandleNewCoordinator_TakesSender(d) ==
    /\ Ready(d)
    /\ Next1(d).type = "NewCoordinator"
    /\ driver' = [driver EXCEPT ![d].coordinator_id = driver[d].driver_left_id]
    /\ mailbox' = Done(d, IF Next1(d).id # d
                          THEN <<SendToRight(NewCoordinator(Next1(d).id))>>
                          ELSE <<>>)
    /\ UNCHANGED <<alive, probing, backlog, sock, timers, pass>>

\* Handler<NewCoordinator>
HandleNewCoordinator(d) ==
    /\ Ready(d)
    /\ Next1(d).type = "NewCoordinator"
    /\ driver' = [driver EXCEPT ![d].coordinator_id = Next1(d).id]
    /\ mailbox' = Done(d, IF Next1(d).id # d
                          THEN <<SendToRight(NewCoordinator(Next1(d).id))>>
                          ELSE <<>>)
    /\ UNCHANGED <<alive, probing, backlog, sock, timers, pass>>

\* Handler<Disconnect>: tell the previous left neighbour to leave, keep the new one.
HandleDisconnect(d) ==
    /\ Ready(d)
    /\ Next1(d).type = "Disconnect"
    /\ driver' = [driver EXCEPT ![d].driver_left_write = Next1(d).new_stream,
                                ![d].driver_left_id = Next1(d).new_id]
    /\ mailbox' = Done(d, <<>>)
    /\ sock' = Collect(IF driver[d].driver_left_write = NoStream
                       THEN sock
                       ELSE WriteDown(sock, driver[d].driver_left_write,
                                      [tag |-> "Disconnect"]),
                       driver', pass)
    /\ UNCHANGED <<alive, probing, backlog, timers, pass>>

----------------------------------------------------------------------------
\* Handler<NewConnection>, read_message, parse_messages, handle_connect,
\* handle_connection_result, handle_driver_connection.

Max(S) == CHOOSE x \in S : \A y \in S : x >= y

ConnectRes(status) == [tag |-> "ConnectRes", status |-> status, leader_id |-> None]

\* The messages the handler do_sends while it walks the buffer backwards,
\* from its last line down to line `from`.
Walked(buf, from) ==
    LET n == Len(buf) - from + 1
        rev == [i \in 1..n |-> buf[Len(buf) - i + 1]]
        keep(m) == m.tag \in {"UnresolvedTrip", "DriverConnected"}
        post(m) == IF m.tag = "UnresolvedTrip"
                   THEN [type |-> "UnresolvedTrip", passenger_id |-> m.passenger_id,
                         driver_id |-> m.driver_id]
                   ELSE [type |-> "DriverConnected", driver_id |-> m.driver_id]
        kept == SelectSeq(rev, keep)
    IN [i \in 1..Len(kept) |-> post(kept[i])]

\* The passenger is accepted by any driver that knows a coordinator.
handle_connect_AnyCoordinator(coordinator_id, id) == ConnectRes(coordinator_id # None)

\* handle_connect: the ConnectRes a passenger is answered with.
handle_connect(coordinator_id, id) == ConnectRes(coordinator_id = id)

\* handle_driver_connection: the driver's fields and what it do_sends.
handle_driver_connection(id, coordinator_id, stream, me) ==
    LET r1 == IF coordinator_id # None
              THEN [me EXCEPT !.coordinator_id = coordinator_id]
              ELSE me
        s1 == IF coordinator_id # None
              THEN <<SendToRight(NewCoordinator(coordinator_id))>>
              ELSE <<>>
        hasLeft == me.driver_left_write # NoStream
        r2 == IF hasLeft
              THEN r1
              ELSE [r1 EXCEPT !.driver_left_id = id, !.driver_left_write = stream]
        s2 == IF hasLeft
              THEN <<[type |-> "Disconnect", new_id |-> id, new_stream |-> stream]>>
              ELSE <<>>
        s3 == IF me.driver_right_id = None
              THEN <<[type |-> "ConnectToRight"]>>
              ELSE <<SendToRight(DriverConnected(id))>>
    IN [me |-> r2, sends |-> s1 \o s2 \o s3]

\* The first read of an accepted stream returned the k oldest lines.
HandleNewConnection(d) ==
    /\ Ready(d)
    /\ Next1(d).type = "NewConnection"
    /\ LET c == Next1(d).stream
       IN /\ sock[c].data # <<>>
          /\ \E k \in 1..Len(sock[c].data) :
             LET buf == SubSeq(sock[c].data, 1, k)
                 rest == SubSeq(sock[c].data, k + 1, Len(sock[c].data))
                 J == {j \in 1..k : buf[j].tag = "Connect"}
                 j == IF J = {} THEN 0 ELSE Max(J)
                 walked == Walked(buf, j + 1)
             IN IF J = {}
                THEN \* no Connect in the buffer: the stream is dropped
                     /\ driver' = driver
                     /\ mailbox' = Done(d, walked)
                     /\ sock' = Collect([sock EXCEPT ![c].acc = "closed", ![c].data = <<>>],
                                        driver', pass)
                ELSE IF buf[j].from = "Driver"
                THEN LET h == handle_driver_connection(buf[j].id, buf[j].coordinator_id,
                                                       c, driver[d])
                     IN /\ driver' = [driver EXCEPT ![d] = h.me]
                        /\ mailbox' = Done(d, walked \o h.sends)
                        /\ sock' = Collect([sock EXCEPT ![c].acc = "open", ![c].data = rest],
                                           driver', pass)
                ELSE LET res == handle_connect(driver[d].coordinator_id, d)
                         s1 == WriteDown(sock, c, res)
                     IN /\ driver' = driver
                        /\ IF res.status
                           THEN /\ mailbox' = Done(d, walked \o
                                     <<[type |-> "AddPassengerStream", id |-> buf[j].id,
                                        writer |-> c]>>)
                                /\ sock' = Collect([s1 EXCEPT ![c].acc = "adding",
                                                              ![c].data = rest],
                                                   driver', pass)
                           ELSE /\ mailbox' = Done(d, walked)
                                /\ sock' = Collect([s1 EXCEPT ![c].acc = "closed",
                                                              ![c].data = <<>>],
                                                   driver', pass)
    /\ UNCHANGED <<alive, probing, backlog, timers, pass>>

----------------------------------------------------------------------------
\* recive_driver_messages: the reader tasks of a stream between two drivers.

OfferToDriver(driver_id, passenger_id, origin, destination) ==
    [ tag |-> "OfferToDriver", driver_id |-> driver_id, origin |-> origin,
      destination |-> destination, passenger_id |-> passenger_id ]

TripResponse(status, reason, passenger_id, driver_id) ==
    [ tag |-> "TripResponse", status |-> status, reason |-> reason,
      passenger_id |-> passenger_id, driver_id |-> driver_id ]

SendTripEnded(passenger_id) == [tag |-> "SendTripEnded", passenger_id |-> passenger_id]

UnresolvedTrip(passenger_id, driver_id) ==
    [tag |-> "UnresolvedTrip", passenger_id |-> passenger_id, driver_id |-> driver_id]

CoordinatesResponse(drivers_coordinates, passenger_id) ==
    [ tag |-> "CoordinatesResponse", drivers_coordinates |-> drivers_coordinates,
      passenger_id |-> passenger_id ]

\* The actor message a line read from a neighbour becomes; <<>> when the line
\* is skipped.  An OfferToDriver is delivered as HandleOffer with
\* driver.send(..).await: `stream` is the reader that waits for the handler.
Dispatch(line, stream) ==
    CASE line.tag = "NewCoordinator" ->
            <<[type |-> "NewCoordinator", id |-> line.id]>>
      [] line.tag = "CoordinatesRequest" ->
            <<[type |-> "CoordinatesRequest", passenger_id |-> line.passenger_id]>>
      [] line.tag = "CoordinatesResponse" ->
            <<[type |-> "CoordinatesResponse",
               drivers_coordinates |-> line.drivers_coordinates,
               passenger_id |-> line.passenger_id]>>
      [] line.tag = "OfferToDriver" ->
            <<[type |-> "HandleOffer", offer |-> line, reply |-> stream]>>
      [] line.tag = "TripResponse" ->
            <<[type |-> "TripResponse", status |-> line.status, reason |-> line.reason,
               passenger_id |-> line.passenger_id, driver_id |-> line.driver_id]>>
      [] line.tag = "SendTripEnded" ->
            <<[type |-> "SendTripEnded", passenger_id |-> line.passenger_id]>>
      [] line.tag = "DriverConnected" ->
            <<[type |-> "DriverConnected", driver_id |-> line.driver_id]>>
      [] line.tag = "UnresolvedTrip" ->
            <<[type |-> "UnresolvedTrip", passenger_id |-> line.passenger_id,
               driver_id |-> line.driver_id]>>
      [] OTHER -> <<>>

\* The reader of the left neighbour's stream (from_left = true) takes a line.
\* No driver writes Disconnect on its right stream, so the Disconnect arm of
\* this reader is never taken.
LeftReader(c) ==
    /\ c \in DOMAIN sock
    /\ ~IsPassenger(c)
    /\ alive[c[2]]
    /\ sock[c].acc = "open"
    /\ ~sock[c].blocked
    /\ sock[c].data # <<>>
    /\ LET line == Head(sock[c].data)
       IN /\ mailbox' = [mailbox EXCEPT ![c[2]] = @ \o Dispatch(line, c)]
          /\ sock' = Collect([sock EXCEPT ![c].data = Tail(@),
                                          ![c].blocked = (line.tag = "OfferToDriver")],
                             driver, pass)
    /\ UNCHANGED <<alive, driver, probing, backlog, timers, pass>>

\* The reader of the right neighbour's stream (from_left = false) reads
\* Disconnect: do_send(ConnectToRight) and return.
RightReaderDisconnect(c) ==
    /\ c \in DOMAIN sock
    /\ ~IsPassenger(c)
    /\ alive[c[1]]
    /\ sock[c].rreader
    /\ sock[c].down # <<>>
    /\ mailbox' = [mailbox EXCEPT ![c[1]] = Append(@, [type |-> "ConnectToRight"])]
    /\ sock' = Collect([sock EXCEPT ![c].rreader = FALSE, ![c].down = <<>>], driver, pass)
    /\ UNCHANGED <<alive, driver, probing, backlog, timers, pass>>

\* The same reader reads 0 bytes: the loop ends and, not being from_left,
\* do_sends ConnectToRight.
RightReaderEof(c) ==
    /\ c \in DOMAIN sock
    /\ ~IsPassenger(c)
    /\ alive[c[1]]
    /\ sock[c].rreader
    /\ sock[c].down = <<>>
    /\ sock[c].acc = "closed"
    /\ mailbox' = [mailbox EXCEPT ![c[1]] = Append(@, [type |-> "ConnectToRight"])]
    /\ sock' = Collect([sock EXCEPT ![c].rreader = FALSE], driver, pass)
    /\ UNCHANGED <<alive, driver, probing, backlog, timers, pass>>

\* Whether d takes itself for the coordinator: coordinator_id.unwrap_or(id) == id.
ActsAsCoordinator(d) ==
    (IF driver[d].coordinator_id = None THEN d ELSE driver[d].coordinator_id) = d

\* Handler<DriverConnected>
HandleDriverConnected(d) ==
    /\ Ready(d)
    /\ Next1(d).type = "DriverConnected"
    /\ LET id == Next1(d).driver_id
           fwd == IF ~ActsAsCoordinator(d)
                  THEN <<SendToRight(DriverConnected(id))>>
                  ELSE <<>>
           unr == IF id \in DOMAIN driver[d].started_trips
                  THEN <<SendToRight(UnresolvedTrip(driver[d].started_trips[id], id))>>
                  ELSE <<>>
       IN mailbox' = Done(d, fwd \o unr)
    /\ UNCHANGED <<alive, driver, probing, backlog, sock, timers, pass>>

\* Handler<UnresolvedTrip>
HandleUnresolvedTrip(d) ==
    /\ Ready(d)
    /\ Next1(d).type = "UnresolvedTrip"
    /\ mailbox' = Done(d, IF d # Next1(d).driver_id
                          THEN <<SendToRight(UnresolvedTrip(Next1(d).passenger_id,
                                                            Next1(d).driver_id))>>
                          ELSE <<[type |-> "SendTripEnded",
                                  passenger_id |-> Next1(d).passenger_id]>>)
    /\ UNCHANGED <<alive, driver, probing, backlog, sock, timers, pass>>

----------------------------------------------------------------------------
\* Trips: Handler<StoreTrip>, <CoordinatesRequest>, <CoordinatesResponse>,
\* <SelectDriver>, <OfferToDriver>, <HandleOffer>, <TripResponse>.

\* Option<DeclineReason>::None, serialised as null.
NoReason == "null"

Abs(x) == IF x < 0 THEN -x ELSE x

\* manhattan_distance: the sum is computed in i16 and cast to u8.
manhattan_distance(a, b) == (Abs(a[1] - b[1]) + Abs(a[2] - b[2])) % 256

\* Handler<StoreTrip>
HandleStoreTrip(d) ==
    /\ Ready(d)
    /\ Next1(d).type = "StoreTrip"
    /\ LET m == Next1(d)
           me == driver[d]
           known == IsSome(me.passengers_trips) /\ m.id \in DOMAIN Unwrap(me.passengers_trips)
           trips == IF IsSome(me.passengers_trips)
                    THEN MapInsert(Unwrap(me.passengers_trips), m.id, <<m.origin, m.destination>>)
                    ELSE MapInsert(EmptyMap, m.id, <<m.origin, m.destination>>)
           declined == IF /\ IsSome(me.trips_drivers_declined)
                          /\ m.id \in DOMAIN Unwrap(me.trips_drivers_declined)
                       THEN Some(MapRemove(Unwrap(me.trips_drivers_declined), m.id))
                       ELSE me.trips_drivers_declined
       IN driver' = IF known
                    THEN \* take() without putting the map back
                         [driver EXCEPT ![d].passengers_trips = <<>>]
                    ELSE [driver EXCEPT ![d].passengers_trips = Some(trips),
                                        ![d].trips_drivers_declined = declined]
    /\ mailbox' = Done(d, <<>>)
    /\ UNCHANGED <<alive, probing, backlog, sock, timers, pass>>

\* The driver adds its position to a snapshot whatever its status.
Available_Always(me) == TRUE

\* matches!(self.status, DriverStatus::Available)
Available(me) == me.status = "Available"

\* Handler<CoordinatesRequest>
HandleCoordinatesRequest(d) ==
    /\ Ready(d)
    /\ Next1(d).type = "CoordinatesRequest"
    /\ LET p == Next1(d).passenger_id
           mine == IF Available(driver[d])
                   THEN MapInsert(EmptyMap, d, coordinates(d))
                   ELSE EmptyMap
       IN mailbox' = Done(d,
             IF driver[d].driver_right_write = NoStream
             THEN <<[type |-> "HandleOffer",
                     offer |-> OfferToDriver(d, p, coordinates(d), <<0, 0>>),
                     reply |-> NoStream]>>
             ELSE <<SendToRight(CoordinatesResponse(mine, p))>>)
    /\ UNCHANGED <<alive, driver, probing, backlog, sock, timers, pass>>

\* Handler<CoordinatesResponse>.  `gathered` in SelectDriver is history: the
\* snapshot that was gathered for the passenger of the message.
HandleCoordinatesResponse(d) ==
    /\ Ready(d)
    /\ Next1(d).type = "CoordinatesResponse"
    /\ LET m == Next1(d)
           cid == driver[d].coordinator_id
           added == IF Available(driver[d])
                    THEN MapInsert(m.drivers_coordinates, d, coordinates(d))
                    ELSE m.drivers_coordinates
       IN IF cid = None
          THEN /\ driver' = driver
               /\ mailbox' = Done(d, <<>>)
          ELSE IF cid = d
          THEN /\ driver' = [driver EXCEPT ![d].free_drivers_position =
                                               Some(m.drivers_coordinates)]
               /\ mailbox' = Done(d, <<[type |-> "SelectDriver",
                                        passenger_id |-> m.passenger_id,
                                        gathered |-> m.drivers_coordinates]>>)
          ELSE /\ driver' = driver
               /\ mailbox' = Done(d, <<SendToRight(CoordinatesResponse(added, m.passenger_id))>>)
    /\ UNCHANGED <<alive, probing, backlog, sock, timers, pass>>

\* The ids a Vec<u16> holds.
Range(seq) == {seq[i] : i \in 1..Len(seq)}

\* declined_drivers of SelectDriver: the list kept for the passenger, or empty.
DeclinedDrivers(me, p) ==
    IF IsSome(me.trips_drivers_declined) /\ p \in DOMAIN Unwrap(me.trips_drivers_declined)
    THEN Unwrap(me.trips_drivers_declined)[p]
    ELSE <<>>

\* min_by_key over all the free drivers, without the filter on the declines.
ClosestDrivers_Unfiltered(drivers, declined, start) ==
    {x \in DOMAIN drivers : \A y \in DOMAIN drivers :
        manhattan_distance(drivers[x], start) <= manhattan_distance(drivers[y], start)}

\* What min_by_key may return: a HashMap iterates in no fixed order, so any
\* of the candidates at the least distance; {} when there is no candidate.
ClosestDrivers(drivers, declined, start) ==
    LET cand == {x \in DOMAIN drivers : x \notin Range(declined)}
    IN {x \in cand : \A y \in cand : manhattan_distance(drivers[x], start)
                                        <= manhattan_distance(drivers[y], start)}

\* `replay` is history: 0 for a fresh line, and for a line drained from
\* unresolved_messages its number among the lines drained for p.
SendToPassenger(line, p) ==
    [type |-> "SendToPassenger", msg |-> line, passenger_id |-> p, replay |-> 0]

\* Handler<SelectDriver>
HandleSelectDriver(d) ==
    /\ Ready(d)
    /\ Next1(d).type = "SelectDriver"
    /\ LET p == Next1(d).passenger_id
           me == driver[d]
           declined == DeclinedDrivers(me, p)
       IN IF /\ IsSome(me.free_drivers_position)
             /\ IsSome(me.passengers_trips)
             /\ p \in DOMAIN Unwrap(me.passengers_trips)
          THEN LET trip == Unwrap(me.passengers_trips)[p]
                   closest == ClosestDrivers(Unwrap(me.free_drivers_position),
                                             declined, trip[1])
               IN IF closest # {}
                  THEN /\ \E x \in closest :
                            mailbox' = Done(d, <<[type |-> "OfferToDriver",
                                                  offer |-> OfferToDriver(x, p, trip[1], trip[2])]>>)
                       /\ driver' = driver
                  ELSE /\ mailbox' = Done(d, <<SendToPassenger(
                              TripResponse(FALSE,
                                           IF Len(declined) = 0 THEN "DriversBusy"
                                                                ELSE "NotAccepted",
                                           p, d), p)>>)
                       /\ driver' = [driver EXCEPT ![d].passengers_trips =
                                        Some(MapRemove(Unwrap(me.passengers_trips), p))]
          ELSE /\ mailbox' = Done(d, <<>>)
               /\ driver' = driver
    /\ UNCHANGED <<alive, probing, backlog, sock, timers, pass>>

\* Every driver hands the offer to its own HandleOffer.
HandleOfferToDriver_AlwaysPeels(d) ==
    /\ Ready(d)
    /\ Next1(d).type = "OfferToDriver"
    /\ mailbox' = Done(d, <<[type |-> "HandleOffer", offer |-> Next1(d).offer,
                             reply |-> NoStream]>>)
    /\ UNCHANGED <<alive, driver, probing, backlog, sock, timers, pass>>

\* Handler<OfferToDriver>
HandleOfferToDriver(d) ==
    /\ Ready(d)
    /\ Next1(d).type = "OfferToDriver"
    /\ mailbox' = Done(d, IF Next1(d).offer.driver_id = d
                          THEN <<[type |-> "HandleOffer", offer |-> Next1(d).offer,
                                  reply |-> NoStream]>>
                          ELSE <<SendToRight(Next1(d).offer)>>)
    /\ UNCHANGED <<alive, driver, probing, backlog, sock, timers, pass>>

\* The reader that awaits driver.send(HandleOffer) goes on once the handler
\* has returned.
Resume(sk, reply) ==
    IF reply # NoStream /\ reply \in DOMAIN sk
    THEN [sk EXCEPT ![reply].blocked = FALSE]
    ELSE sk

\* Offers answered with status = false for the request p has pending.
Declines(p) == Len(SelectSeq(pass[p].offers, LAMBDA o : ~o.status))

\* A Busy driver answers every offer with status = false.
OfferStatus_IgnoresBusy(me, coin) == coin

\* HandleOffer's status: the coin, overridden when the driver is Busy.
OfferStatus(me, coin) == IF me.status = "Busy" THEN FALSE ELSE coin

\* Handler<HandleOffer>; `coin` is rng.gen_bool(0.5).
HandleOffer(d) ==
    /\ Ready(d)
    /\ Next1(d).type = "HandleOffer"
    /\ LET offer == Next1(d).offer
           p == offer.passenger_id
           me == driver[d]
       IN IF offer.driver_id = d
          THEN \E coin \in BOOLEAN :
               LET status == OfferStatus(me, coin)
                   res == TripResponse(status, NoReason, p, d)
                   ended == IF status THEN <<[type |-> "TripEnded", passenger_id |-> p]>>
                                      ELSE <<>>
               IN /\ status \/ me.status = "Busy" \/ Declines(p) < MaxDeclines
                  /\ IF ActsAsCoordinator(d)
                     THEN /\ mailbox' = Done(d, <<SendToPassenger(res, p)>> \o ended)
                          /\ driver' = [driver EXCEPT
                                ![d].passengers_trips =
                                    IF IsSome(me.passengers_trips)
                                    THEN Some(MapRemove(Unwrap(me.passengers_trips), p))
                                    ELSE <<>>,
                                ![d].status = IF status THEN "Busy" ELSE @]
                     ELSE /\ mailbox' = Done(d, <<SendToRight(res)>> \o ended)
                          /\ driver' = [driver EXCEPT
                                ![d].status = IF status THEN "Busy" ELSE @]
                  /\ pass' = [pass EXCEPT ![p].offers =
                                 Append(@, [driver |-> d, status |-> status,
                                            busy |-> me.status = "Busy"])]
          ELSE /\ mailbox' = Done(d, <<SendToRight(offer)>>)
               /\ driver' = driver
               /\ pass' = pass
    /\ sock' = Resume(sock, Next1(d).reply)
    /\ UNCHANGED <<alive, probing, backlog, timers>>

\* Handler<TripResponse>
HandleTripResponse(d) ==
    /\ Ready(d)
    /\ Next1(d).type = "TripResponse"
    /\ LET m == Next1(d)
           p == m.passenger_id
           me == driver[d]
           line == TripResponse(m.status, m.reason, p, m.driver_id)
           old == IF IsSome(me.trips_drivers_declined)
                  THEN Unwrap(me.trips_drivers_declined)
                  ELSE EmptyMap
       IN IF ~ActsAsCoordinator(d)
          THEN /\ mailbox' = Done(d, <<SendToRight(line)>>)
               /\ driver' = driver
          ELSE IF ~m.status
          THEN /\ driver' = [driver EXCEPT ![d].trips_drivers_declined =
                                Some(MapInsert(old, p, Append(DeclinedDrivers(me, p), p)))]
               /\ mailbox' = Done(d, <<[type |-> "CoordinatesRequest", passenger_id |-> p]>>)
          ELSE /\ driver' = [driver EXCEPT ![d].started_trips =
                                MapInsert(@, m.driver_id, p)]
               /\ mailbox' = Done(d, <<SendToPassenger(line, p)>>)
    /\ UNCHANGED <<alive, probing, backlog, sock, timers, pass>>

----------------------------------------------------------------------------
\* The trip itself and its end: Handler<TripEnded>, <ChangeStatus>,
\* <SendTripEnded>, <SendToPassenger>, <HandleUnresolvedMsgs>.

TripEnded == [tag |-> "TripEnded"]

\* The handler spawns the trip task twice.
HandleTripEnded_TwoTasks(d) ==
    /\ Ready(d)
    /\ Next1(d).type = "TripEnded"
    /\ timers' = [timers EXCEPT ![d] =
                     @ \o << [passenger_id |-> Next1(d).passenger_id,
                              coordinator  |-> ActsAsCoordinator(d)],
                             [passenger_id |-> Next1(d).passenger_id,
                              coordinator  |-> ActsAsCoordinator(d)] >>]
    /\ mailbox' = Done(d, <<>>)
    /\ UNCHANGED <<alive, driver, probing, backlog, sock, pass>>

\* Handler<TripEnded>: spawn the task that sleeps for the length of the trip.
\* It captures the passenger and whether the driver then took itself for the
\* coordinator.
HandleTripEnded(d) ==
    /\ Ready(d)
    /\ Next1(d).type = "TripEnded"
    /\ timers' = [timers EXCEPT ![d] =
                     Append(@, [passenger_id |-> Next1(d).passenger_id,
                                coordinator  |-> ActsAsCoordinator(d)])]
    /\ mailbox' = Done(d, <<>>)
    /\ UNCHANGED <<alive, driver, probing, backlog, sock, pass>>

\* The sleep of the oldest trip task of d is over: do_send(ChangeStatus), then
\* SendTripEnded to itself or, through SendToRight, towards the coordinator.
TripTimer(d) ==
    /\ alive[d]
    /\ timers[d] # <<>>
    /\ LET t == Head(timers[d])
       IN mailbox' = [mailbox EXCEPT ![d] = @ \o
             << [type |-> "ChangeStatus"],
                IF t.coordinator
                THEN [type |-> "SendTripEnded", passenger_id |-> t.passenger_id]
                ELSE SendToRight(SendTripEnded(t.passenger_id)) >>]
    /\ timers' = [timers EXCEPT ![d] = Tail(@)]
    /\ UNCHANGED <<alive, driver, probing, backlog, sock, pass>>

\* Handler<ChangeStatus>
HandleChangeStatus(d) ==
    /\ Ready(d)
    /\ Next1(d).type = "ChangeStatus"
    /\ driver' = [driver EXCEPT ![d].status =
                     IF @ = "Busy" THEN "Available" ELSE "Busy"]
    /\ mailbox' = Done(d, <<>>)
    /\ UNCHANGED <<alive, probing, backlog, sock, timers, pass>>

\* Handler<SendTripEnded>; find_map takes any of the drivers recorded with p.
HandleSendTripEnded(d) ==
    /\ Ready(d)
    /\ Next1(d).type = "SendTripEnded"
    /\ LET p == Next1(d).passenger_id
           me == driver[d]
           keys == {k \in DOMAIN me.started_trips : me.started_trips[k] = p}
           trips == IF IsSome(me.passengers_trips)
                    THEN Some(MapRemove(Unwrap(me.passengers_trips), p))
                    ELSE <<>>
       IN IF ~ActsAsCoordinator(d)
          THEN /\ mailbox' = Done(d, <<SendToRight(SendTripEnded(p))>>)
               /\ driver' = driver
          ELSE /\ mailbox' = Done(d, <<SendToPassenger(TripEnded, p)>>)
               /\ IF keys = {}
                  THEN driver' = [driver EXCEPT ![d].passengers_trips = trips]
                  ELSE \E k \in keys :
                          driver' = [driver EXCEPT
                             ![d].started_trips = MapRemove(@, k),
                             ![d].passengers_trips = trips]
    /\ UNCHANGED <<alive, probing, backlog, sock, timers, pass>>

\* Saved without the push: the line is dropped.
Saved_Dropped(me, p, line) == me.unresolved_messages

\* unresolved_messages.entry(p).or_default().push(line)
Saved(me, p, line) ==
    MapInsert(me.unresolved_messages, p,
              IF p \in DOMAIN me.unresolved_messages
              THEN Append(me.unresolved_messages[p], line)
              ELSE <<line>>)

\* The passenger's process still holds the other end of c.
PeerOpen(sk, c) == c \in DOMAIN sk /\ sk[c].rreader

\* Handler<SendToPassenger>.  write_all to a socket the passenger has closed
\* may still return Ok or already Err.
HandleSendToPassenger(d) ==
    /\ Ready(d)
    /\ Next1(d).type = "SendToPassenger"
    /\ LET p == Next1(d).passenger_id
           line == Next1(d).msg
           me == driver[d]
           save == [driver EXCEPT ![d].unresolved_messages = Saved(me, p, line)]
       IN IF ~IsSome(me.passengers) \/ p \notin DOMAIN Unwrap(me.passengers)
          THEN /\ driver' = save
               /\ sock' = sock
               /\ pass' = pass
          ELSE LET c == Unwrap(me.passengers)[p]
               IN IF PeerOpen(sock, c)
                  THEN /\ driver' = driver
                       /\ sock' = WriteDown(sock, c, line)
                       /\ pass' = [pass EXCEPT
                                      ![p].ended =
                                          IF line.tag = "TripEnded" THEN @ + 1 ELSE @,
                                      ![p].replayed =
                                          IF Next1(d).replay > 0
                                          THEN Append(@, Next1(d).replay)
                                          ELSE @]
                  ELSE /\ \E ok \in BOOLEAN : driver' = IF ok THEN driver ELSE save
                       /\ sock' = sock
                       /\ pass' = pass
    /\ mailbox' = Done(d, <<>>)
    /\ UNCHANGED <<alive, probing, backlog, timers>>

\* The loop of Handler<HandleUnresolvedMsgs> with the list out of order.
Drain_Reversed(messages, p, base) ==
    [i \in 1..Len(messages) |->
        [SendToPassenger(messages[Len(messages) + 1 - i], p) EXCEPT
            !.replay = base + Len(messages) + 1 - i]]

\* for message in messages { do_send(SendToPassenger { .. }) }
Drain(messages, p, base) ==
    [i \in 1..Len(messages) |->
        [SendToPassenger(messages[i], p) EXCEPT !.replay = base + i]]

\* Handler<HandleUnresolvedMsgs>
HandleUnresolvedMsgs(d) ==
    /\ Ready(d)
    /\ Next1(d).type = "HandleUnresolvedMsgs"
    /\ LET p == Next1(d).passenger_id
           me == driver[d]
           messages == IF p \in DOMAIN me.unresolved_messages
                       THEN me.unresolved_messages[p]
                       ELSE <<>>
       IN /\ driver' = [driver EXCEPT ![d].unresolved_messages = MapRemove(@, p)]
          /\ mailbox' = Done(d, Drain(messages, p, pass[p].drained))
          /\ pass' = [pass EXCEPT ![p].drained = @ + Len(messages)]
    /\ UNCHANGED <<alive, probing, backlog, sock, timers>>

----------------------------------------------------------------------------
\* A passenger's stream on the coordinator: Handler<AddPassengerStream>,
\* handle_passenger_connections, handle_passenger_messages.

\* Handler<AddPassengerStream>; the task that sent it is resumed.
HandleAddPassengerStream(d) ==
    /\ Ready(d)
    /\ Next1(d).type = "AddPassengerStream"
    /\ LET m == Next1(d)
           passengers == IF IsSome(driver[d].passengers)
                         THEN Unwrap(driver[d].passengers)
                         ELSE EmptyMap
       IN /\ driver' = [driver EXCEPT ![d].passengers =
                           Some(MapInsert(passengers, m.id, m.writer))]
          /\ sock' = Collect(IF m.writer \in DOMAIN sock
                             THEN [sock EXCEPT ![m.writer].acc = "added"]
                             ELSE sock,
                             driver', pass)
    /\ mailbox' = Done(d, <<>>)
    /\ UNCHANGED <<alive, probing, backlog, timers, pass>>

\* handle_passenger_connections after the await: do_send(HandleUnresolvedMsgs)
\* and spawn the reader of the passenger's stream.
PassengerTask(c) ==
    /\ c \in DOMAIN sock
    /\ IsPassenger(c)
    /\ alive[c[2]]
    /\ sock[c].acc = "added"
    /\ mailbox' = [mailbox EXCEPT ![c[2]] =
                      Append(@, [type |-> "HandleUnresolvedMsgs",
                                 passenger_id |-> PassengerOf(c)])]
    /\ sock' = Collect([sock EXCEPT ![c].acc = "open"], driver, pass)
    /\ UNCHANGED <<alive, driver, probing, backlog, timers, pass>>

TripRequest(start, end) == [tag |-> "TripRequest", start |-> start, end |-> end]

\* handle_passenger_messages: one read returns the k oldest lines, and the
\* whole of it is parsed as one message, so only a read of exactly one
\* TripRequest is served.
PassengerReader(c) ==
    /\ c \in DOMAIN sock
    /\ IsPassenger(c)
    /\ alive[c[2]]
    /\ sock[c].acc = "open"
    /\ sock[c].data # <<>>
    /\ \E k \in 1..Len(sock[c].data) :
          LET line == Head(sock[c].data)
              p == PassengerOf(c)
          IN /\ mailbox' = [mailbox EXCEPT ![c[2]] = @ \o
                   IF k = 1 /\ line.tag = "TripRequest"
                   THEN << [type |-> "StoreTrip", id |-> p, origin |-> line.start,
                            destination |-> line.end],
                           [type |-> "CoordinatesRequest", passenger_id |-> p] >>
                   ELSE <<>>]
             /\ sock' = Collect([sock EXCEPT ![c].data = SubSeq(@, k + 1, Len(@))],
                                driver, pass)
    /\ UNCHANGED <<alive, driver, probing, backlog, timers, pass>>

----------------------------------------------------------------------------
\* The passenger process: Passenger::create, try_connect, handle_recive,
\* Handler<HandleTripResponse>.  Its card is taken to have been validated.

\* The (location, destination) a passenger is created with.
location(p) ==
    CASE p = 2 -> <<1, 1>>
      [] p = 7 -> <<3, 3>>
      [] OTHER -> <<99, 99>>

destination(p) ==
    CASE p = 2 -> <<9, 9>>
      [] p = 7 -> <<50, 50>>
      [] OTHER -> <<0, 0>>

\* A passenger process before Passenger::create is called.
NewPassenger ==
    [ pc            |-> "idle",   \* idle | connect | await_res | recv | done | failed
      leader_driver |-> 0,        \* try_connect: the id popped from the stack
      driver_id     |-> 0,        \* try_connect: the id the for loop is at
      stream        |-> NoStream,
      requests      |-> 0,        \* TripRequests written so far
      got           |-> <<>>,     \* history: what the process wrote and read
      offers        |-> <<>>,     \* history: the offers answered for its request,
                                  \* each [driver, status, busy]
      ended         |-> 0,        \* history: TripEnded lines written to its socket
      again         |-> FALSE,    \* try_connect was called by handle_recive
      card_number   |-> 0,        \* the card of its PassengerData
      validated     |-> "",       \* the status validate_payment has read
      pay           |-> [req |-> <<>>, res |-> <<>>],
                                  \* its connection to the payments service: the
                                  \* lines written to it and by it, not yet read
      drained       |-> 0,        \* history: lines taken out of unresolved_messages
      replayed      |-> <<>> ]    \* history: the drained lines written to its
                                  \* socket, each by its number in `drained`

\* The lines of the payments service.
ValidatePayment(passenger_id, card_number) ==
    [tag |-> "ValidatePayment", passenger_id |-> passenger_id, card_number |-> card_number]

MakePayment(passenger_id) == [tag |-> "MakePayment", passenger_id |-> passenger_id]

ValidatePaymentResponse(status) == [tag |-> "ValidatePaymentResponse", status |-> status]

\* Ports of ids that are never started refuse at once.
NextPort(i) ==
    LET S == {j \in i..(MAX_DRIVERS - 1) : j \in Drivers}
    IN IF S = {} THEN MAX_DRIVERS ELSE Min(S)

\* Passenger::create reaches try_connect(id, None), the payment of its card
\* having been validated.
PassengerCreate(p) ==
    /\ pass[p].pc = "idle"
    /\ pass' = [pass EXCEPT ![p].pc = "connect",
                            ![p].validated = "Success",
                            ![p].leader_driver = 0,
                            ![p].driver_id = NextPort(0)]
    /\ UNCHANGED <<alive, driver, mailbox, probing, backlog, sock, timers>>

\* Passenger::create calls validate_payment, which writes ValidatePayment to
\* the payments service.
PassengerValidate(p, card) ==
    /\ pass[p].pc = "idle"
    /\ pass' = [pass EXCEPT ![p].pc = "validate",
                            ![p].card_number = card,
                            ![p].pay.req = Append(@, ValidatePayment(p, card))]
    /\ UNCHANGED <<alive, driver, mailbox, probing, backlog, sock, timers>>

\* Every card is valid.
PaymentStatus_AlwaysSuccess(card_number) == "Success"

\* is_valid of Payments::handle_messages.
PaymentStatus(card_number) == IF card_number % 2 = 0 THEN "Success" ELSE "Failure"

\* Payments::handle_messages on the connection of passenger p: one read, one
\* message, an answer to ValidatePayment only.
PaymentsHandleMessages(p) ==
    /\ pass[p].pay.req # <<>>
    /\ LET m == Head(pass[p].pay.req)
       IN pass' = [pass EXCEPT
              ![p].pay.req = Tail(@),
              ![p].pay.res =
                  IF m.tag = "ValidatePayment"
                  THEN Append(@, ValidatePaymentResponse(PaymentStatus(m.card_number)))
                  ELSE @]
    /\ UNCHANGED <<alive, driver, mailbox, probing, backlog, sock, timers>>

\* validate_payment reads the answer: Ok(()) on Success, and create goes on
\* to try_connect(id, None); Err on Failure, and create returns.
PassengerValidated(p) ==
    /\ pass[p].pc = "validate"
    /\ pass[p].pay.res # <<>>
    /\ LET status == Head(pass[p].pay.res).status
       IN pass' = [pass EXCEPT
              ![p].pay.res = Tail(@),
              ![p].validated = status,
              ![p].pc = IF status = "Success" THEN "connect" ELSE "declined",
              ![p].leader_driver = 0,
              ![p].driver_id = NextPort(0)]
    /\ UNCHANGED <<alive, driver, mailbox, probing, backlog, sock, timers>>

\* try_connect: TcpStream::connect refused, `continue`.
PassengerRefused(p) ==
    /\ pass[p].pc = "connect"
    /\ pass[p].driver_id < MAX_DRIVERS
    /\ ~alive[pass[p].driver_id]
    /\ pass' = [pass EXCEPT ![p].driver_id = NextPort(@ + 1)]
    /\ UNCHANGED <<alive, driver, mailbox, probing, backlog, sock, timers>>

\* try_connect: the for loop ends with nothing pushed; Err(()).
PassengerExhausted(p) ==
    /\ pass[p].pc = "connect"
    /\ pass[p].driver_id = MAX_DRIVERS
    /\ pass' = [pass EXCEPT ![p].pc = "failed"]
    /\ UNCHANGED <<alive, driver, mailbox, probing, backlog, sock, timers>>

\* try_connect: connected; write Connect{Passenger} and wait for the answer.
PassengerConnected(p) ==
    /\ pass[p].pc = "connect"
    /\ pass[p].driver_id < MAX_DRIVERS
    /\ alive[pass[p].driver_id]
    /\ LET t == pass[p].driver_id
       IN /\ FreeGens(PassengerEnd(p), t) # {}
          /\ LET c == <<PassengerEnd(p), t, Min(FreeGens(PassengerEnd(p), t))>>
             IN /\ pass' = [pass EXCEPT ![p].pc = "await_res", ![p].stream = c]
                /\ backlog' = [backlog EXCEPT ![t] = Append(@, c)]
                /\ sock' = Collect(sock @@ (c :> [NewStream EXCEPT
                                       !.data = <<Connect("Passenger", p, None)>>]),
                                   driver, pass')
    /\ UNCHANGED <<alive, driver, mailbox, probing, timers>>

\* try_connect: the read returns the k oldest lines, parsed as one message.
\* ConnectRes{false}: push leader_driver + 1 and start over; anything else
\* that parses counts as connected, and create writes the TripRequest, while
\* handle_recive goes on reading from the new stream.
PassengerConnectRes(p) ==
    /\ pass[p].pc = "await_res"
    /\ LET c == pass[p].stream
       IN /\ sock[c].down # <<>>
          /\ \E k \in 1..Len(sock[c].down) :
                LET line == Head(sock[c].down)
                    L == pass[p].leader_driver + 1
                IN IF k > 1
                   THEN /\ pass' = [pass EXCEPT ![p].pc = "failed", ![p].stream = NoStream]
                        /\ sock' = Collect([sock EXCEPT ![c].rreader = FALSE, ![c].down = <<>>],
                                           driver, pass')
                   ELSE IF line.tag = "ConnectRes" /\ ~line.status
                   THEN /\ pass' = [pass EXCEPT ![p].pc = "connect",
                                                ![p].stream = NoStream,
                                                ![p].leader_driver = L,
                                                ![p].driver_id = NextPort(L)]
                        /\ sock' = Collect([sock EXCEPT ![c].rreader = FALSE, ![c].down = <<>>],
                                           driver, pass')
                   ELSE IF pass[p].again
                   THEN /\ pass' = [pass EXCEPT ![p].pc = "recv"]
                        /\ sock' = [sock EXCEPT ![c].down = Tail(@)]
                   ELSE /\ pass' = [pass EXCEPT ![p].pc = "recv",
                                                ![p].requests = @ + 1,
                                                ![p].got = Append(@, "request"),
                                                ![p].offers = <<>>]
                        /\ sock' = Collect(WriteData([sock EXCEPT ![c].down = Tail(@)], c,
                                                     TripRequest(location(p), destination(p))),
                                           driver, pass')
    /\ UNCHANGED <<alive, driver, mailbox, probing, backlog, timers>>

\* What the process notes of a line it has read.
Outcome(line) ==
    CASE line.tag = "TripEnded" -> "ended"
      [] line.tag = "TripResponse" -> IF line.status THEN "accepted" ELSE line.reason
      [] OTHER -> "invalid"

\* handle_recive takes the next line; `try_again` is rng.gen_bool(0.7).
\* A declined request is written again by Handler<HandleTripResponse>, or the
\* process stops; TripEnded ends the process.
PassengerRecv(p) ==
    /\ pass[p].pc = "recv"
    /\ LET c == pass[p].stream
           line == Head(sock[c].down)
           read == [sock EXCEPT ![c].down = Tail(@)]
           leave == [read EXCEPT ![c].rreader = FALSE, ![c].down = <<>>]
       IN /\ sock[c].down # <<>>
          /\ IF line.tag = "TripResponse" /\ line.status
             THEN /\ pass' = [pass EXCEPT ![p].got = Append(@, Outcome(line))]
                  /\ sock' = read
             ELSE IF line.tag = "TripResponse"
             THEN \E try_again \in BOOLEAN :
                     /\ try_again => pass[p].requests < MaxRequests
                     /\ IF try_again
                        THEN /\ pass' = [pass EXCEPT
                                   ![p].got = @ \o <<Outcome(line), "request">>,
                                   ![p].requests = @ + 1,
                                   ![p].offers = <<>>]
                             /\ sock' = WriteData(read, c,
                                           TripRequest(location(p), destination(p)))
                        ELSE /\ pass' = [pass EXCEPT ![p].got = Append(@, Outcome(line)),
                                                     ![p].pc = "done",
                                                     ![p].stream = NoStream]
                             /\ sock' = Collect(leave, driver, pass')
             ELSE IF line.tag = "TripEnded"
             THEN /\ pass' = [pass EXCEPT ![p].got = Append(@, Outcome(line)),
                                          ![p].pc = "done",
                                          ![p].stream = NoStream,
                                          ![p].pay.req = Append(@, MakePayment(p))]
                  /\ sock' = Collect(leave, driver, pass')
             ELSE /\ pass' = pass
                  /\ sock' = read
    /\ UNCHANGED <<alive, driver, mailbox, probing, backlog, timers>>

\* handle_recive: read returns Ok(0), the driver's end of the stream is gone;
\* try_connect(id, None) starts over from driver 0.
PassengerEof(p) ==
    /\ pass[p].pc = "recv"
    /\ LET c == pass[p].stream
       IN /\ sock[c].down = <<>>
          /\ sock[c].acc = "closed"
          /\ pass' = [pass EXCEPT ![p].pc = "connect",
                                  ![p].again = TRUE,
                                  ![p].stream = NoStream,
                                  ![p].leader_driver = 0,
                                  ![p].driver_id = NextPort(0)]
          /\ sock' = Collect([sock EXCEPT ![c].rreader = FALSE], driver, pass')
    /\ UNCHANGED <<alive, driver, mailbox, probing, backlog, timers>>

----------------------------------------------------------------------------
\* The process of driver d is killed: its state, its mailbox, its tasks and
\* its ends of every stream are gone.  What it had written and the peer has
\* not read yet can still be read.
Crash(d) ==
    /\ alive[d]
    /\ alive' = [alive EXCEPT ![d] = FALSE]
    /\ driver' = [driver EXCEPT ![d] = NewDriver]
    /\ mailbox' = [mailbox EXCEPT ![d] = <<>>]
    /\ probing' = [probing EXCEPT ![d] = 0]
    /\ backlog' = [backlog EXCEPT ![d] = <<>>]
    /\ timers' = [timers EXCEPT ![d] = <<>>]
    /\ sock' = Collect([c \in DOMAIN sock |->
                          IF c[2] = d
                          THEN [sock[c] EXCEPT !.acc = "closed",
                                               !.data = <<>>,
                                               !.blocked = FALSE]
                          ELSE IF c[1] = d
                          THEN [sock[c] EXCEPT !.rreader = FALSE, !.down = <<>>]
                          ELSE sock[c]],
                       driver', pass)
    /\ UNCHANGED pass

----------------------------------------------------------------------------
\* No process runs yet.
InitJoin ==
    /\ alive = [d \in Drivers |-> FALSE]
    /\ driver = [d \in Drivers |-> NewDriver]
    /\ mailbox = [d \in Drivers |-> <<>>]
    /\ probing = [d \in Drivers |-> 0]
    /\ backlog = [d \in Drivers |-> <<>>]
    /\ sock = <<>>
    /\ timers = [d \in Drivers |-> <<>>]
    /\ pass = [p \in Passengers |-> NewPassenger]

\* Nothing is left to do for any actor, listener or reader task.
Settled ==
    /\ \A d \in Drivers :
          /\ probing[d] = 0
          /\ backlog[d] = <<>>
          /\ alive[d] /\ mailbox[d] # <<>> =>
                /\ Next1(d).type = "NewConnection"
                /\ sock[Next1(d).stream].data = <<>>
    /\ \A c \in DOMAIN sock :
          /\ ~(sock[c].acc = "open" /\ ~sock[c].blocked /\ sock[c].data # <<>>)
          /\ ~IsPassenger(c) =>
                ~(sock[c].rreader /\ (sock[c].down # <<>> \/ sock[c].acc = "closed"))

\* The operator starts a driver: at most MaxConcurrent of them while the ring
\* is still moving, any other once it has come to rest.
JoinAllowed ==
    \/ Cardinality({d \in Drivers : alive[d]}) < MaxConcurrent
    \/ Settled

\* Drivers start in any order; no passenger runs.
NextJoin ==
    \/ \E d \in Drivers : JoinAllowed /\ Start(d)
    \/ \E d \in Drivers : HandleConnections(d)
    \/ \E d \in Drivers : ConnectToRight(d)
    \/ \E d \in Drivers : ProbeRefused(d)
    \/ \E d \in Drivers : ProbeConnected(d)
    \/ \E d \in Drivers : ProbeExhausted(d)
    \/ \E d \in Drivers : HandleSendToRight(d)
    \/ \E d \in Drivers : HandleNewCoordinator(d)
    \/ \E d \in Drivers : HandleDisconnect(d)
    \/ \E d \in Drivers : HandleNewConnection(d)
    \/ \E d \in Drivers : HandleDriverConnected(d)
    \/ \E c \in DOMAIN sock : LeftReader(c)
    \/ \E c \in DOMAIN sock : RightReaderDisconnect(c)
    \/ \E c \in DOMAIN sock : RightReaderEof(c)

SpecJoin == InitJoin /\ [][NextJoin]_vars

----------------------------------------------------------------------------
\* The ring of drivers 0 and 2 at rest, as the joins of SpecJoin leave it:
\* 2 is the coordinator, each is the other's neighbour on both sides.
RingDriver(d, other) ==
    [NewDriver EXCEPT !.driver_left_id = other,
                      !.driver_left_write = <<other, d, 1>>,
                      !.driver_right_id = other,
                      !.driver_right_write = <<d, other, 1>>,
                      !.coordinator_id = 2]

InitTrip ==
    /\ alive = [d \in Drivers |-> d \in {0, 2}]
    /\ driver = [d \in Drivers |->
                    CASE d = 0 -> RingDriver(0, 2)
                      [] d = 2 -> RingDriver(2, 0)
                      [] OTHER -> NewDriver]
    /\ mailbox = [d \in Drivers |-> <<>>]
    /\ probing = [d \in Drivers |-> 0]
    /\ backlog = [d \in Drivers |-> <<>>]
    /\ sock = (<<0, 2, 1>> :> [NewStream EXCEPT !.acc = "open"]) @@
              (<<2, 0, 1>> :> [NewStream EXCEPT !.acc = "open"])
    /\ timers = [d \in Drivers |-> <<>>]
    /\ pass = [p \in Passengers |-> NewPassenger]

\* Another passenger process may still be run.
RidersLeft == Cardinality({p \in Passengers : pass[p].pc # "idle"}) < MaxRiders

\* What passengers, listeners, readers, actors and trip tasks do once a
\* passenger process runs.
Serve ==
    \/ \E p \in Passengers : PassengerRefused(p)
    \/ \E p \in Passengers : PassengerConnected(p)
    \/ \E p \in Passengers : PassengerConnectRes(p)
    \/ \E p \in Passengers : PassengerRecv(p)
    \/ \E d \in Drivers : HandleConnections(d)
    \/ \E d \in Drivers : HandleNewConnection(d)
    \/ \E d \in Drivers : HandleAddPassengerStream(d)
    \/ \E c \in DOMAIN sock : PassengerTask(c)
    \/ \E c \in DOMAIN sock : PassengerReader(c)
    \/ \E c \in DOMAIN sock : LeftReader(c)
    \/ \E d \in Drivers : HandleSendToRight(d)
    \/ \E d \in Drivers : HandleStoreTrip(d)
    \/ \E d \in Drivers : HandleCoordinatesRequest(d)
    \/ \E d \in Drivers : HandleCoordinatesResponse(d)
    \/ \E d \in Drivers : HandleSelectDriver(d)
    \/ \E d \in Drivers : HandleOfferToDriver(d)
    \/ \E d \in Drivers : HandleOffer(d)
    \/ \E d \in Drivers : HandleTripResponse(d)
    \/ \E d \in Drivers : HandleTripEnded(d)
    \/ \E d \in Drivers : TripTimer(d)
    \/ \E d \in Drivers : HandleChangeStatus(d)
    \/ \E d \in Drivers : HandleSendTripEnded(d)
    \/ \E d \in Drivers : HandleSendToPassenger(d)
    \/ \E d \in Drivers : HandleUnresolvedMsgs(d)

\* Passengers ask the ring for trips; no driver joins.
NextTrip ==
    \/ \E p \in Passengers : RidersLeft /\ PassengerCreate(p)
    \/ Serve

SpecTrip == InitTrip /\ [][NextTrip]_vars

----------------------------------------------------------------------------
\* Both drivers of the ring are on a trip, as SpecTrip leaves them once
\* passenger 2 has been accepted by driver 0 and passenger 7 by driver 2.
RidingPassenger(p, d) ==
    [NewPassenger EXCEPT !.pc = "recv",
                         !.validated = "Success",
                         !.leader_driver = 1,
                         !.driver_id = 2,
                         !.stream = <<PassengerEnd(p), 2, 1>>,
                         !.requests = 1,
                         !.got = <<"request", "accepted">>,
                         !.offers = <<[driver |-> d, status |-> TRUE, busy |-> FALSE]>>]

InitRiding ==
    /\ alive = [d \in Drivers |-> d \in {0, 2}]
    /\ driver = [d \in Drivers |->
          CASE d = 0 -> [RingDriver(0, 2) EXCEPT !.status = "Busy"]
            [] d = 2 -> [RingDriver(2, 0) EXCEPT
                            !.status = "Busy",
                            !.free_drivers_position = Some(2 :> coordinates(2)),
                            !.passengers = Some((2 :> <<PassengerEnd(2), 2, 1>>) @@
                                                (7 :> <<PassengerEnd(7), 2, 1>>)),
                            !.passengers_trips = Some(2 :> <<location(2), destination(2)>>),
                            !.started_trips = (0 :> 2)]
            [] OTHER -> NewDriver]
    /\ mailbox = [d \in Drivers |-> <<>>]
    /\ probing = [d \in Drivers |-> 0]
    /\ backlog = [d \in Drivers |-> <<>>]
    /\ sock = (<<0, 2, 1>> :> [NewStream EXCEPT !.acc = "open"]) @@
              (<<2, 0, 1>> :> [NewStream EXCEPT !.acc = "open"]) @@
              (<<PassengerEnd(2), 2, 1>> :> [NewStream EXCEPT !.acc = "open"]) @@
              (<<PassengerEnd(7), 2, 1>> :> [NewStream EXCEPT !.acc = "open"])
    /\ timers = [d \in Drivers |->
          CASE d = 0 -> <<[passenger_id |-> 2, coordinator |-> FALSE]>>
            [] d = 2 -> <<[passenger_id |-> 7, coordinator |-> TRUE]>>
            [] OTHER -> <<>>]
    /\ pass = [p \in Passengers |->
          CASE p = 2 -> RidingPassenger(2, 0)
            [] p = 7 -> RidingPassenger(7, 2)
            [] OTHER -> NewPassenger]

\* A third passenger asks for a trip while both drivers are on theirs.
NextBusy ==
    \/ \E p \in Passengers : PassengerCreate(p)
    \/ Serve

SpecBusy == InitRiding /\ [][NextBusy]_vars

\* No passenger process has been run yet.
NoRider == \A q \in Passengers : pass[q].pc = "idle"

\* One passenger asks the ring of drivers 0 and 2 for trips, and driver 1 joins
\* the ring at any time.
NextRejoin ==
    \/ Start(1)
    \/ \E p \in Passengers : NoRider /\ PassengerCreate(p)
    \/ \E d \in Drivers : ConnectToRight(d)
    \/ \E d \in Drivers : ProbeConnected(d)
    \/ \E d \in Drivers : HandleNewCoordinator(d)
    \/ \E d \in Drivers : HandleDisconnect(d)
    \/ \E d \in Drivers : HandleDriverConnected(d)
    \/ \E d \in Drivers : HandleUnresolvedTrip(d)
    \/ \E c \in DOMAIN sock : RightReaderDisconnect(c)
    \/ \E c \in DOMAIN sock : RightReaderEof(c)
    \/ Serve

SpecRejoin == InitTrip /\ [][NextRejoin]_vars


----------------------------------------------------------------------------
\* What actors, listeners and readers do while drivers join a ring some
\* driver of which already listens.
RingStep ==
    \/ \E d \in Drivers : HandleConnections(d)
    \/ \E d \in Drivers : ConnectToRight(d)
    \/ \E d \in Drivers : ProbeRefused(d)
    \/ \E d \in Drivers : ProbeConnected(d)
    \/ \E d \in Drivers : HandleSendToRight(d)
    \/ \E d \in Drivers : HandleNewCoordinator(d)
    \/ \E d \in Drivers : HandleDisconnect(d)
    \/ \E d \in Drivers : HandleNewConnection(d)
    \/ \E d \in Drivers : HandleDriverConnected(d)
    \/ \E c \in DOMAIN sock : LeftReader(c)
    \/ \E c \in DOMAIN sock : RightReaderDisconnect(c)
    \/ \E c \in DOMAIN sock : RightReaderEof(c)

\* Drivers are started one at a time, in any order, each once the ring has
\* come to rest.
NextSeq ==
    \/ \E d \in Drivers : Settled /\ Start(d)
    \/ \E d \in Drivers : ProbeExhausted(d)
    \/ RingStep

SpecSeq == InitJoin /\ [][NextSeq]_vars

\* The streams drivers may open between them.
DriverStreams == Drivers \X Drivers \X (1..MaxGen)

\* The runtime runs every actor, every listener and every reader task that
\* has work.
SpecSeqFair ==
    /\ SpecSeq
    /\ \A d \in Drivers :
          /\ WF_vars(HandleConnections(d))
          /\ WF_vars(ConnectToRight(d))
          /\ WF_vars(ProbeRefused(d))
          /\ WF_vars(ProbeConnected(d))
          /\ WF_vars(ProbeExhausted(d))
          /\ WF_vars(HandleSendToRight(d))
          /\ WF_vars(HandleNewCoordinator(d))
          /\ WF_vars(HandleDisconnect(d))
          /\ WF_vars(HandleNewConnection(d))
          /\ WF_vars(HandleDriverConnected(d))
    /\ \A c \in DriverStreams :
          /\ WF_vars(LeftReader(c))
          /\ WF_vars(RightReaderDisconnect(c))
          /\ WF_vars(RightReaderEof(c))

\* Driver 2 runs alone, at rest, as Driver::start and an exhausted probe
\* leave it.
InitAlone ==
    /\ alive = [d \in Drivers |-> d = 2]
    /\ driver = [d \in Drivers |->
                    IF d = 2 THEN [NewDriver EXCEPT !.coordinator_id = 2] ELSE NewDriver]
    /\ mailbox = [d \in Drivers |-> <<>>]
    /\ probing = [d \in Drivers |-> 0]
    /\ backlog = [d \in Drivers |-> <<>>]
    /\ sock = <<>>
    /\ timers = [d \in Drivers |-> <<>>]
    /\ pass = [p \in Passengers |-> NewPassenger]

\* The other drivers are started at any time, also both at once.
NextPair ==
    \/ \E d \in Drivers : Start(d)
    \/ RingStep

SpecPair == InitAlone /\ [][NextPair]_vars

\* A ring of one: driver 2 alone is its own coordinator and has no right
\* neighbour, so CoordinatesRequest hands the offer straight to HandleOffer
\* and nothing travels round a ring.  Passengers connect and ask for trips.
NextSolo ==
    \/ \E p \in Passengers : RidersLeft /\ PassengerCreate(p)
    \/ \E p \in Passengers : PassengerRefused(p)
    \/ \E p \in Passengers : PassengerConnected(p)
    \/ \E p \in Passengers : PassengerConnectRes(p)
    \/ \E p \in Passengers : PassengerRecv(p)
    \/ \E d \in Drivers : HandleConnections(d)
    \/ \E d \in Drivers : HandleNewConnection(d)
    \/ \E d \in Drivers : HandleAddPassengerStream(d)
    \/ \E c \in DOMAIN sock : PassengerTask(c)
    \/ \E c \in DOMAIN sock : PassengerReader(c)
    \/ \E d \in Drivers : HandleStoreTrip(d)
    \/ \E d \in Drivers : HandleCoordinatesRequest(d)
    \/ \E d \in Drivers : HandleOffer(d)
    \/ \E d \in Drivers : HandleTripEnded(d)
    \/ \E d \in Drivers : TripTimer(d)
    \/ \E d \in Drivers : HandleChangeStatus(d)
    \/ \E d \in Drivers : HandleSendTripEnded(d)
    \/ \E d \in Drivers : HandleSendToPassenger(d)
    \/ \E d \in Drivers : HandleUnresolvedMsgs(d)

SpecSolo == InitAlone /\ [][NextSolo]_vars

\* As SpecSolo, with the payments service: every passenger process has its
\* card validated before it connects, and pays when its trip has ended.
NextPay ==
    \/ \E p \in Passengers : \E card \in 0..MaxCard : RidersLeft /\ PassengerValidate(p, card)
    \/ \E p \in Passengers : PaymentsHandleMessages(p)
    \/ \E p \in Passengers : PassengerValidated(p)
    \/ \E p \in Passengers : PassengerRefused(p)
    \/ \E p \in Passengers : PassengerConnected(p)
    \/ \E p \in Passengers : PassengerConnectRes(p)
    \/ \E p \in Passengers : PassengerRecv(p)
    \/ \E d \in Drivers : HandleConnections(d)
    \/ \E d \in Drivers : HandleNewConnection(d)
    \/ \E d \in Drivers : HandleAddPassengerStream(d)
    \/ \E c \in DOMAIN sock : PassengerTask(c)
    \/ \E c \in DOMAIN sock : PassengerReader(c)
    \/ \E d \in Drivers : HandleStoreTrip(d)
    \/ \E d \in Drivers : HandleCoordinatesRequest(d)
    \/ \E d \in Drivers : HandleOffer(d)
    \/ \E d \in Drivers : HandleTripEnded(d)
    \/ \E d \in Drivers : TripTimer(d)
    \/ \E d \in Drivers : HandleChangeStatus(d)
    \/ \E d \in Drivers : HandleSendTripEnded(d)
    \/ \E d \in Drivers : HandleSendToPassenger(d)
    \/ \E d \in Drivers : HandleUnresolvedMsgs(d)

SpecPay == InitAlone /\ [][NextPay]_vars

\* Driver 0 runs alone, at rest, as Driver::start and an exhausted probe
\* leave it: the coordinator of a ring that a higher id may still join.
InitFirst ==
    /\ alive = [d \in Drivers |-> d = 0]
    /\ driver = [d \in Drivers |->
                    IF d = 0 THEN [NewDriver EXCEPT !.coordinator_id = 0] ELSE NewDriver]
    /\ mailbox = [d \in Drivers |-> <<>>]
    /\ probing = [d \in Drivers |-> 0]
    /\ backlog = [d \in Drivers |-> <<>>]
    /\ sock = <<>>
    /\ timers = [d \in Drivers |-> <<>>]
    /\ pass = [p \in Passengers |-> NewPassenger]

\* One passenger asks driver 0 for trips, and driver 1 joins at any time and
\* takes the coordinator's role over.
NextTakeover ==
    \/ Start(1)
    \/ \E p \in Passengers : NoRider /\ PassengerCreate(p)
    \/ \E d \in Drivers : ConnectToRight(d)
    \/ \E d \in Drivers : ProbeRefused(d)
    \/ \E d \in Drivers : ProbeConnected(d)
    \/ \E d \in Drivers : HandleNewCoordinator(d)
    \/ \E d \in Drivers : HandleDriverConnected(d)
    \/ \E d \in Drivers : HandleUnresolvedTrip(d)
    \/ \E c \in DOMAIN sock : RightReaderEof(c)
    \/ Serve

SpecTakeover == InitFirst /\ [][NextTakeover]_vars

\* As SpecTakeover, and once the ring is at rest with driver 1 in it the
\* process of driver 0 may be killed: the passenger reads the end of its
\* stream and connects again, driver 1 probes for a new right neighbour.
NextRecover ==
    \/ Start(1)
    \/ Settled /\ alive[1] /\ Crash(0)
    \/ \E p \in Passengers : NoRider /\ PassengerCreate(p)
    \/ \E p \in Passengers : PassengerEof(p)
    \/ \E d \in Drivers : ConnectToRight(d)
    \/ \E d \in Drivers : ProbeRefused(d)
    \/ \E d \in Drivers : ProbeConnected(d)
    \/ \E d \in Drivers : ProbeExhausted(d)
    \/ \E d \in Drivers : HandleNewCoordinator(d)
    \/ \E d \in Drivers : HandleDriverConnected(d)
    \/ \E d \in Drivers : HandleUnresolvedTrip(d)
    \/ \E c \in DOMAIN sock : RightReaderEof(c)
    \/ Serve

SpecRecover == InitFirst /\ [][NextRecover]_vars

\* As SpecRecover, and drivers are started one at a time, each once the ring
\* is at rest: driver 0 may be started again after its process was killed.
NextRestart ==
    \/ \E d \in {0, 1} : Settled /\ Start(d)
    \/ Settled /\ alive[1] /\ Crash(0)
    \/ \E p \in Passengers : NoRider /\ PassengerCreate(p)
    \/ \E p \in Passengers : PassengerEof(p)
    \/ \E p \in Passengers : PassengerExhausted(p)
    \/ \E d \in Drivers : ConnectToRight(d)
    \/ \E d \in Drivers : ProbeRefused(d)
    \/ \E d \in Drivers : ProbeConnected(d)
    \/ \E d \in Drivers : ProbeExhausted(d)
    \/ \E d \in Drivers : HandleNewCoordinator(d)
    \/ \E d \in Drivers : HandleDriverConnected(d)
    \/ \E d \in Drivers : HandleUnresolvedTrip(d)
    \/ \E c \in DOMAIN sock : RightReaderEof(c)
    \/ Serve

SpecRestart == InitFirst /\ [][NextRestart]_vars

----------------------------------------------------------------------------
\* The ring of drivers 0, 1 and 2 at rest, as the joins of SpecSeq leave it:
\* 0 -> 1 -> 2 -> 0, and every driver takes 2 for the coordinator.
RingOfThree(d) ==
    [NewDriver EXCEPT !.driver_left_id = (d + 2) % 3,
                      !.driver_left_write = <<(d + 2) % 3, d, 1>>,
                      !.driver_right_id = (d + 1) % 3,
                      !.driver_right_write = <<d, (d + 1) % 3, 1>>,
                      !.coordinator_id = 2]

InitRing ==
    /\ alive = [d \in Drivers |-> d \in 0..2]
    /\ driver = [d \in Drivers |-> IF d \in 0..2 THEN RingOfThree(d) ELSE NewDriver]
    /\ mailbox = [d \in Drivers |-> <<>>]
    /\ probing = [d \in Drivers |-> 0]
    /\ backlog = [d \in Drivers |-> <<>>]
    /\ sock = [c \in {<<0, 1, 1>>, <<1, 2, 1>>, <<2, 0, 1>>} |->
                  [NewStream EXCEPT !.acc = "open"]]
    /\ timers = [d \in Drivers |-> <<>>]
    /\ pass = [p \in Passengers |-> NewPassenger]

\* The NewCoordinator messages and lines on their way round the ring.
Circulating ==
    LET news(seq, key) == Len(SelectSeq(seq, LAMBDA m : m[key] = "NewCoordinator"))
        sends(seq) == Len(SelectSeq(seq, LAMBDA m : m.type = "SendToRight"))
        Sum(f) == f[0] + f[1] + f[2]
    IN Sum([d \in 0..2 |-> news(mailbox[d], "type") + sends(mailbox[d])
                            + news(sock[<<d, (d + 1) % 3, 1>>].data, "tag")])

\* The actor of d is sent NewCoordinator{id} once more.
Resend(d, id) ==
    /\ alive[d]
    /\ Circulating < MaxResends
    /\ mailbox' = [mailbox EXCEPT ![d] = Append(@, [type |-> "NewCoordinator", id |-> id])]
    /\ UNCHANGED <<alive, driver, probing, backlog, sock, timers, pass>>

\* The coordinator's id is announced again, at any driver and at any time.
NextResend ==
    \/ \E d \in Drivers : Resend(d, 2)
    \/ \E d \in Drivers : HandleNewCoordinator(d)
    \/ \E d \in Drivers : HandleSendToRight(d)
    \/ \E c \in DOMAIN sock : LeftReader(c)

SpecResend == InitRing /\ [][NextResend]_vars

----------------------------------------------------------------------------
\* SelectDriver on its own: coordinator 2 of the ring of drivers 0 and 2 is
\* about to handle SelectDriver for passenger 2, with any snapshot of
\* positions, any origin and any list of declines kept for the passenger.

\* The u8 values positions are drawn from.
Coordinate == {0, 1, 255}

Position == Coordinate \X Coordinate

\* The availability snapshots: a position for each driver that answered.
Snapshot == UNION {[X -> Position] : X \in SUBSET {0, 2}}

\* The lists trips_drivers_declined may hold for passenger 2: one push of the
\* passenger's id per declined offer.
DeclinedList == {<<>>, <<2>>, <<2, 2>>}

InitSelect ==
    \E S \in Snapshot : \E O \in Position : \E D \in DeclinedList :
        /\ alive = [d \in Drivers |-> d \in {0, 2}]
        /\ driver = [d \in Drivers |->
              CASE d = 0 -> RingDriver(0, 2)
                [] d = 2 -> [RingDriver(2, 0) EXCEPT
                                !.free_drivers_position = Some(S),
                                !.passengers = Some(2 :> <<PassengerEnd(2), 2, 1>>),
                                !.passengers_trips = Some(2 :> <<O, destination(2)>>),
                                !.trips_drivers_declined =
                                    IF D = <<>> THEN <<>> ELSE Some(2 :> D)]
                [] OTHER -> NewDriver]
        /\ mailbox = [d \in Drivers |->
              IF d = 2 THEN <<[type |-> "SelectDriver", passenger_id |-> 2, gathered |-> S]>>
                       ELSE <<>>]
        /\ probing = [d \in Drivers |-> 0]
        /\ backlog = [d \in Drivers |-> <<>>]
        /\ sock = (<<0, 2, 1>> :> [NewStream EXCEPT !.acc = "open"]) @@
                  (<<2, 0, 1>> :> [NewStream EXCEPT !.acc = "open"]) @@
                  (<<PassengerEnd(2), 2, 1>> :> [NewStream EXCEPT !.acc = "open"])
        /\ timers = [d \in Drivers |-> <<>>]
        /\ pass = [p \in Passengers |->
              IF p = 2
              THEN [NewPassenger EXCEPT
                      !.pc = "recv",
                      !.validated = "Success",
                      !.leader_driver = 1,
                      !.driver_id = 2,
                      !.stream = <<PassengerEnd(2), 2, 1>>,
                      !.requests = 1,
                      !.got = <<"request">>,
                      !.offers = [i \in 1..Len(D) |->
                                     [driver |-> 0, status |-> FALSE, busy |-> FALSE]]]
              ELSE NewPassenger]

NextSelect == \E d \in Drivers : HandleSelectDriver(d)

SpecSelect == InitSelect /\ [][NextSelect]_vars

----------------------------------------------------------------------------
\* Properties of the ring and of the trips it serves.

\* The drivers whose process runs.
Alive == {d \in Drivers : alive[d]}

\* One running driver is the coordinator every running driver names.
Agreed == \E k \in Alive : \A d \in Alive : driver[d].coordinator_id = k

\* The last element of a non-empty sequence.
Last(seq) == seq[Len(seq)]

\* C1: once the drivers that joined have nothing left to do (no probe, no
\* pending connection, no unread line, no queued message), exactly one running
\* driver has coordinator_id equal to its own id and every other running
\* driver's coordinator_id is that driver's id.
C1_QuiescentRingAgrees == Settled /\ Alive # {} => Agreed

\* C2: a passenger process that has finished after sending a TripRequest read,
\* last, either a TripResponse{status=false} with a declared reason, or a
\* TripEnded that follows a TripResponse{status=true}; it read at most one
\* TripEnded and no refusal after an acceptance.
C2_TerminalOutcome ==
    \A p \in Passengers :
        pass[p].pc = "done" =>
            LET g == pass[p].got
                n == Len(g)
            IN /\ n >= 2
               /\ \/ g[n] \in {"NotAccepted", "DriversBusy"}
                  \/ g[n] = "ended" /\ g[n - 1] = "accepted"
               /\ Cardinality({i \in 1..n : g[i] = "ended"}) <= 1
               /\ \A i \in 1..n : \A j \in (i + 1)..n :
                      g[i] = "accepted" => g[j] = "ended"

C5_RefusalHasReason ==
    \A p \in Passengers : NoReason \notin Range(pass[p].got)

\* C8: over a whole run in which a driver re-establishes its right link during
\* a trip, the passenger's socket is written at most one TripEnded.
C8_OneTripEnded ==
    \A p \in Passengers : pass[p].ended <= 1

\* C10: the offers made for one request of a passenger number at most the
\* drivers of the ring.
C10_OffersBounded ==
    \A p \in Passengers : Len(pass[p].offers) <= Cardinality(Alive)


\* Trips under way at a driver: trip tasks sleeping, and TripEnded messages
\* from which Handler<TripEnded> has yet to spawn one.
Running(d) ==
    Len(timers[d]) +
    Cardinality({i \in 1..Len(mailbox[d]) : mailbox[d][i].type = "TripEnded"})

\* C7: a driver has at most one trip under way, it is Busy for as long as the
\* trip is, and every offer answered by a driver that was Busy was answered
\* with status=false.
C7_OneTripAtATime ==
    /\ \A d \in Drivers :
          /\ Running(d) <= 1
          /\ Running(d) = 1 => driver[d].status = "Busy"
    /\ \A p \in Passengers : \A i \in 1..Len(pass[p].offers) :
          pass[p].offers[i].busy => ~pass[p].offers[i].status

\* A driver with a trip under way has refused the offer made for another
\* passenger.
C7_BusyDriverRefused ==
    \E d \in Drivers : \E p \in Passengers :
        /\ timers[d] # <<>>
        /\ timers[d][1].passenger_id # p
        /\ \E i \in 1..Len(pass[p].offers) :
              /\ pass[p].offers[i].driver = d
              /\ pass[p].offers[i].busy
              /\ ~pass[p].offers[i].status

\* The passengers whose trip task sleeps at some driver.
Riders ==
    UNION {{timers[d][i].passenger_id : i \in 1..Len(timers[d])} : d \in Drivers}

\* An offer for passenger p is queued at an actor or on its way to one.
OfferInFlight(p) ==
    \/ \E d \in Drivers : \E i \in 1..Len(mailbox[d]) :
          LET m == mailbox[d][i]
          IN \/ m.type \in {"OfferToDriver", "HandleOffer"} /\ m.offer.passenger_id = p
             \/ /\ m.type = "SendToRight"
                /\ m.msg.tag = "OfferToDriver"
                /\ m.msg.passenger_id = p
    \/ \E c \in DOMAIN sock : \E i \in 1..Len(sock[c].data) :
          /\ sock[c].data[i].tag = "OfferToDriver"
          /\ sock[c].data[i].passenger_id = p

\* Every running driver has a trip under way.
AllBusy == \A d \in Alive : timers[d] # <<>>

\* C9: while every driver of the ring is Busy with a trip, a passenger who is
\* on none of these trips has had no OfferToDriver emitted for its request,
\* and the only answer it has read is TripResponse{false, DriversBusy}.
C9_AllBusyAnswersDriversBusy ==
    AllBusy /\ Cardinality(Alive) >= 2 =>
        \A p \in Passengers \ Riders :
            "accepted" \notin Range(pass[p].got) =>
                /\ pass[p].offers = <<>>
                /\ ~OfferInFlight(p)
                /\ Range(pass[p].got) \subseteq {"request", "DriversBusy"}

\* Both drivers are still on their trips and the third passenger has read
\* DriversBusy for its request.
C9_ThirdPassengerRefused ==
    /\ AllBusy
    /\ Cardinality(Alive) >= 2
    /\ \E p \in Passengers \ Riders :
          /\ pass[p].got # <<>>
          /\ Last(pass[p].got) = "DriversBusy"

\* The streams of passengers whose Connect the acceptor answers in this step.
Answered == {c \in DOMAIN sock : /\ IsPassenger(c)
                                 /\ sock[c].acc = "pending"
                                 /\ c \in DOMAIN sock'
                                 /\ sock'[c].acc # "pending"}

\* The AddPassengerStream messages queued at driver d.
Adding(mb, d) ==
    {mb[d][i] : i \in {j \in 1..Len(mb[d]) : mb[d][j].type = "AddPassengerStream"}}

\* What the acceptor d of passenger stream c does when it answers the Connect.
AnswersConnect(c) ==
    LET d == c[2]
        add == [type |-> "AddPassengerStream", id |-> PassengerOf(c), writer |-> c]
    IN /\ sock'[c].down # <<>>
       /\ IF driver[d].coordinator_id = d
          THEN /\ Last(sock'[c].down) = [tag |-> "ConnectRes", status |-> TRUE,
                                         leader_id |-> None]
               /\ sock'[c].acc = "adding"
               /\ add \in Adding(mailbox', d)
          ELSE /\ Last(sock'[c].down) = [tag |-> "ConnectRes", status |-> FALSE,
                                         leader_id |-> None]
               /\ sock'[c].acc = "closed"
               /\ add \notin Adding(mailbox', d)

\* Only a driver that is the coordinator has passengers or is adding one.
OnlyCoordinatorHasPassengers ==
    \A d \in Drivers :
        \/ driver[d].coordinator_id = d
        \/ /\ Adding(mailbox, d) = {}
           /\ IsSome(driver[d].passengers) => DOMAIN Unwrap(driver[d].passengers) = {}

\* C3: a driver answers a passenger's Connect with ConnectRes{status=true} and
\* queues the passenger's writer for `passengers` exactly when its
\* coordinator_id is its own id at that moment; otherwise (coordinator_id None
\* included) it answers ConnectRes{status=false, leader_id=None}, drops the
\* stream, and the passenger never enters `passengers`.
C3_PassengerConnect ==
    /\ [][\A c \in Answered : AnswersConnect(c)]_vars
    /\ []OnlyCoordinatorHasPassengers

\* A passenger was refused by driver 0 (not the coordinator) and by driver 1
\* (which has no coordinator yet), and is a passenger of coordinator 2.
C3_RefusedThenAccepted ==
    \E p \in Passengers :
        /\ pass[p].leader_driver = 2
        /\ alive[1]
        /\ driver[1].coordinator_id = None
        /\ IsSome(driver[2].passengers)
        /\ p \in DOMAIN Unwrap(driver[2].passengers)

\* |x1 - x2| + |y1 - y2|
Manhattan(a, b) == Abs(a[1] - b[1]) + Abs(a[2] - b[2])

\* The driver of the snapshot, outside the declined ids, at the least Manhattan
\* distance from the origin; of several such, the one with the smallest id.
Nearest(S, D, O) ==
    LET cand == DOMAIN S \ D
    IN Min({x \in cand : \A y \in cand : Manhattan(S[x], O) <= Manhattan(S[y], O)})

\* C6: the OfferToDriver that SelectDriver queues names the driver of the
\* snapshot, outside the passenger's declined ids, with the minimum Manhattan
\* distance to the origin, and of several at that minimum the smallest id.
C6_SelectsNearestSmallestId ==
    \A d \in Drivers :
        mailbox[d] # <<>> /\ Next1(d).type = "OfferToDriver" =>
            LET me == driver[d]
                offer == Next1(d).offer
            IN offer.driver_id =
                   Nearest(Unwrap(me.free_drivers_position),
                           Range(DeclinedDrivers(me, offer.passenger_id)),
                           offer.origin)

\* Driver d has no neighbour on either side.
NoNeighbours(drv, d) ==
    /\ drv[d].driver_right_id = None
    /\ drv[d].driver_right_write = NoStream
    /\ drv[d].driver_left_id = None
    /\ drv[d].driver_left_write = NoStream

\* C11: in a ring of one driver, a passenger whose request reaches the driver
\* while it is Busy reads a refusal whose reason is DriversBusy.
C11_LoneBusyDriverAnswersDriversBusy ==
    \A p \in Passengers :
        /\ pass[p].offers # <<>>
        /\ Last(pass[p].offers).busy
        /\ pass[p].got # <<>>
        /\ Last(pass[p].got) \notin {"request", "accepted", "ended"}
        => Last(pass[p].got) = "DriversBusy"

\* C12: when the right-probe of a driver has been refused by every other id,
\* the driver sets coordinator_id to its own id and has no right and no left
\* neighbour; a driver that runs alone and is at rest is the coordinator.
C12_LoneDriverIsCoordinator ==
    /\ [][\A d \in Drivers :
            probing[d] = MAX_DRIVERS /\ probing'[d] = 0 =>
                driver'[d].coordinator_id = d /\ NoNeighbours(driver', d)]_vars
    /\ [](\A d \in Drivers :
            Settled /\ Alive = {d} =>
                driver[d].coordinator_id = d /\ NoNeighbours(driver, d))

\* A driver was started alone, every probe was refused, and it is at rest as
\* its own coordinator.
C12_StartedAlone ==
    \E d \in Drivers :
        /\ Alive = {d}
        /\ Settled
        /\ driver[d].coordinator_id = d

\* The next higher running id after d, cyclically; None when d runs alone.
RightOf(d) ==
    IF Alive = {d} THEN None
    ELSE IF \E x \in Alive : x > d
         THEN Min({x \in Alive : x > d})
         ELSE Min(Alive)

\* Every running driver is linked rightwards to the next higher running id
\* and names the highest running id as coordinator.
RingInOrder ==
    \A d \in Alive :
        /\ driver[d].driver_right_id = RightOf(d)
        /\ driver[d].coordinator_id = Max(Alive)

\* C13: when drivers start one at a time, each join reaching quiescence
\* before the next, the ring keeps coming to rest, and at rest each driver's
\* right neighbour is the next higher running id (cyclically) and every
\* driver's coordinator_id is the highest running id.
C13_SequentialJoinsOrderRing ==
    /\ [](Settled => RingInOrder)
    /\ []<>Settled

\* All three drivers have joined, whatever the order, and the ring is at
\* rest: 0 -> 1 -> 2 -> 0 with coordinator 2.
C13_ThreeDriverRing ==
    /\ Settled
    /\ Alive = {0, 1, 2}
    /\ driver[0].driver_right_id = 1
    /\ driver[1].driver_right_id = 2
    /\ driver[2].driver_right_id = 0
    /\ \A d \in Alive : driver[d].coordinator_id = 2

\* C14: at quiescence, for all running drivers A and B, A's right neighbour
\* is B exactly when B's left neighbour is A.
C14_LeftRightConsistent ==
    Settled =>
        \A a \in Alive : \A b \in Alive :
            (driver[a].driver_right_id = b) <=> (driver[b].driver_left_id = a)

\* The passengers whose trip the coordinator d keeps in passengers_trips
\* (pending) and in started_trips (in flight).
Pending(d) ==
    IF IsSome(driver[d].passengers_trips)
    THEN DOMAIN Unwrap(driver[d].passengers_trips)
    ELSE {}

InFlight(d) ==
    {driver[d].started_trips[k] : k \in DOMAIN driver[d].started_trips}

\* C15: at the coordinator no passenger id is at once in pending_trips
\* (passengers_trips) and in in_flight (started_trips): an accepted
\* TripResponse moves the passenger from the first map to the second.
C15_PendingXorInFlight ==
    \A d \in Alive : ActsAsCoordinator(d) => Pending(d) \cap InFlight(d) = {}

\* The passengers for which driver d keeps a list in trips_drivers_declined.
Declined(d) ==
    IF IsSome(driver[d].trips_drivers_declined)
    THEN DOMAIN Unwrap(driver[d].trips_drivers_declined)
    ELSE {}

\* C16: every step that deletes a passenger's entry of pending_trips
\* (passengers_trips) leaves no entry for that passenger in declined
\* (trips_drivers_declined).
C16_DeclinedClearedWithPending ==
    [][\A d \in Alive : \A p \in Pending(d) :
          IsSome(driver'[d].passengers_trips)
          /\ p \notin DOMAIN Unwrap(driver'[d].passengers_trips)
          => \/ ~ IsSome(driver'[d].trips_drivers_declined)
             \/ p \notin DOMAIN Unwrap(driver'[d].trips_drivers_declined)]_vars

\* Nothing is left to do for any actor, listener, reader, trip task or
\* passenger process.
AtRest ==
    /\ Settled
    /\ \A d \in Drivers : timers[d] = <<>>
    /\ \A p \in Passengers : pass[p].pc \in {"idle", "recv", "done", "failed"}
    /\ \A c \in DOMAIN sock :
          IsPassenger(c) => sock[c].down = <<>> /\ sock[c].acc # "added"

\* Driver d holds no passenger writer, no pending trip, no list of declines
\* and no started trip.
HoldsNothing(d) ==
    /\ IsSome(driver[d].passengers) => DOMAIN Unwrap(driver[d].passengers) = {}
    /\ Pending(d) = {}
    /\ Declined(d) = {}
    /\ DOMAIN driver[d].started_trips = {}

\* C17: at rest, every driver that is not the coordinator has empty
\* passengers, pending_trips, declined and in_flight maps, a former
\* coordinator included.
C17_OnlyCoordinatorHoldsMaps ==
    AtRest => \A d \in Alive : ~ActsAsCoordinator(d) => HoldsNothing(d)

\* The lines driver d of drv keeps for passenger p in unresolved_messages.
Unresolved(drv, d, p) ==
    IF p \in DOMAIN drv[d].unresolved_messages
    THEN drv[d].unresolved_messages[p]
    ELSE <<>>

\* Driver d holds a writer for passenger p.
HasWriter(d, p) ==
    IsSome(driver[d].passengers) /\ p \in DOMAIN Unwrap(driver[d].passengers)

\* C19: a handled SendToPassenger{msg, p} is either written to p's stream or
\* appended to unresolved_messages[p], never both and never neither: with no
\* writer for p it is appended; with a writer whose peer reads, it is written
\* and nothing is appended; with a writer whose peer is gone, nothing reaches
\* the stream and the line is appended at most once.
C19_WrittenOrBuffered ==
    [][\A d \in Drivers :
          /\ Ready(d)
          /\ Next1(d).type = "SendToPassenger"
          /\ mailbox'[d] = Tail(mailbox[d])
          => LET p == Next1(d).passenger_id
                 line == Next1(d).msg
                 buffered == Unresolved(driver', d, p) =
                                Append(Unresolved(driver, d, p), line)
                 kept == Unresolved(driver', d, p) = Unresolved(driver, d, p)
             IN IF ~HasWriter(d, p)
                THEN buffered /\ sock' = sock
                ELSE LET c == Unwrap(driver[d].passengers)[p]
                     IN IF PeerOpen(sock, c)
                        THEN kept /\ sock'[c].down = Append(sock[c].down, line)
                        ELSE (buffered \/ kept) /\ sock' = sock]_vars

\* A driver with no writer for a passenger has buffered a line for it.
C19_BufferedWithoutWriter ==
    \E d \in Drivers : \E p \in Passengers :
        ~HasWriter(d, p) /\ Unresolved(driver, d, p) # <<>>

\* The numbers of seq grow from each element to the next.
Increasing(seq) == \A i, j \in 1..Len(seq) : i < j => seq[i] < seq[j]

\* C18: the lines buffered in unresolved_messages[p] reach passenger p at
\* most once and in the order they were buffered: the drain that follows p's
\* Connect empties the buffer and queues its lines in that order behind
\* whatever the mailbox already holds, and the drained lines written to p's
\* stream are written in the order of their numbers, none of them twice.
C18_BufferedDeliveredOnceInOrder ==
    /\ [](\A p \in Passengers : Increasing(pass[p].replayed))
    /\ [][\A d \in Drivers :
             HandleUnresolvedMsgs(d)
             => LET p == Next1(d).passenger_id
                    messages == Unresolved(driver, d, p)
                    n == Len(mailbox[d]) - 1
                IN /\ Unresolved(driver', d, p) = <<>>
                   /\ Len(mailbox'[d]) = n + Len(messages)
                   /\ \A i \in 1..Len(messages) :
                         /\ mailbox'[d][n + i].type = "SendToPassenger"
                         /\ mailbox'[d][n + i].passenger_id = p
                         /\ mailbox'[d][n + i].msg = messages[i]]_vars

\* A passenger that connected again has been written two drained lines.
C18_TwoLinesReplayed ==
    \E p \in Passengers : pass[p].again /\ Len(pass[p].replayed) >= 2

C21_ResendIsNoOp ==
    \A d \in 0..2 : driver[d] = RingOfThree(d)

\* A NewCoordinator{2} sent again has gone round to driver 2, where it stops.
C21_ResentReachedCoordinator ==
    /\ mailbox[2] # <<>>
    /\ Head(mailbox[2]).type = "NewCoordinator"
    /\ sock[<<1, 2, 1>>].data = <<>>
    /\ mailbox[0] = <<>> /\ mailbox[1] = <<>>

\* C22: a try_connect that was rejected with ConnectRes{false} and then
\* reaches a driver that answers ConnectRes{true} returns that driver's
\* stream: it does not end in failure.
C22_RejectedPassengerReachesCoordinator ==
    [][\A p \in Passengers :
          /\ pass[p].pc = "await_res"
          /\ pass[p].leader_driver > 0
          /\ pass'[p].pc = "failed"
          => ~ /\ Head(sock[pass[p].stream].down).tag = "ConnectRes"
               /\ Head(sock[pass[p].stream].down).status]_vars

\* C23: the payments service answers ValidatePayment{passenger_id,
\* card_number} with ValidatePaymentResponse{Success} exactly when card_number
\* is even and with Failure otherwise, answers nothing to MakePayment, and a
\* passenger process reaches try_connect only after it has read Success.
C23_PaymentValidation ==
    /\ [][\A p \in Passengers : PaymentsHandleMessages(p) =>
             LET m == Head(pass[p].pay.req)
                 even == m.card_number % 2 = 0
             IN IF m.tag = "ValidatePayment"
                THEN /\ Len(pass'[p].pay.res) = Len(pass[p].pay.res) + 1
                     /\ Last(pass'[p].pay.res).tag = "ValidatePaymentResponse"
                     /\ Last(pass'[p].pay.res).status \in {"Success", "Failure"}
                     /\ Last(pass'[p].pay.res).status = "Success" <=> even
                ELSE pass'[p].pay.res = pass[p].pay.res]_vars
    /\ [](\A p \in Passengers :
             pass[p].pc \in {"connect", "await_res", "recv", "done", "failed"}
             => pass[p].validated = "Success" /\ pass[p].card_number % 2 = 0)

\* One passenger was refused by the payments service and never connected,
\* another was validated, rode, and its MakePayment was read and not answered.
C23_OneDeclinedOnePaid ==
    \E p, q \in Passengers :
        /\ pass[p].pc = "declined" /\ pass[p].card_number % 2 = 1
        /\ pass[q].pc = "done" /\ Last(pass[q].got) = "ended"
        /\ pass[q].pay = [req |-> <<>>, res |-> <<>>]

\* The ring of InitTrip (drivers 0 and 2, coordinator 2) while driver 2's
\* process is killed and driver 1 is started: the ring recloses over the
\* drivers that are left.
NextCrash ==
    \/ Start(1)
    \/ Crash(2)
    \/ \E d \in Drivers : ProbeExhausted(d)
    \/ RingStep

SpecCrash == InitTrip /\ [][NextCrash]_vars

\* The runtime runs every actor, every listener and every reader task that
\* has work.
SpecCrashFair ==
    /\ SpecCrash
    /\ \A d \in Drivers :
          /\ WF_vars(HandleConnections(d))
          /\ WF_vars(ConnectToRight(d))
          /\ WF_vars(ProbeRefused(d))
          /\ WF_vars(ProbeConnected(d))
          /\ WF_vars(ProbeExhausted(d))
          /\ WF_vars(HandleSendToRight(d))
          /\ WF_vars(HandleNewCoordinator(d))
          /\ WF_vars(HandleDisconnect(d))
          /\ WF_vars(HandleNewConnection(d))
          /\ WF_vars(HandleDriverConnected(d))
    /\ \A c \in DriverStreams :
          /\ WF_vars(LeftReader(c))
          /\ WF_vars(RightReaderDisconnect(c))
          /\ WF_vars(RightReaderEof(c))

\* A NewCoordinator message is on its way: in a mailbox, waiting to be
\* written to the right neighbour, or on a stream.
Announced ==
    \/ \E d \in Drivers : \E i \in 1..Len(mailbox[d]) :
          \/ mailbox[d][i].type = "NewCoordinator"
          \/ mailbox[d][i].type = "SendToRight" /\ mailbox[d][i].msg.tag = "NewCoordinator"
    \/ \E c \in DOMAIN sock : \E i \in 1..Len(sock[c].data) :
          sock[c].data[i].tag = "NewCoordinator"

\* C24: every NewCoordinator message stops circulating, in every ring
\* reached by joins and driver crashes, also when the announced id is not a
\* live member: again and again no NewCoordinator message is under way.
C24_NewCoordinatorStops == []<>(~Announced)

\* C25: when a driver completes ConnectToRight with a right neighbour of a
\* smaller id, its own coordinator_id equals its id as of that step; when the
\* right neighbour's id is greater and the joiner was the coordinator, its
\* coordinator_id becomes the right neighbour's id.
C25_JoinerDeclaresItself ==
    [][\A d \in Drivers :
          ProbeConnected(d) =>
             /\ driver'[d].driver_right_id < d => driver'[d].coordinator_id = d
             /\ (driver'[d].driver_right_id > d /\ driver[d].coordinator_id = d)
                   => driver'[d].coordinator_id = driver'[d].driver_right_id]_vars

\* C26: a coordinator that is itself the selected candidate and declines the
\* offer for passenger p has its id added to declined[p] and restarts the
\* position gather with a CoordinatesRequest for p, instead of answering the
\* passenger with a failure.
C26_CoordinatorDeclineRestartsGather ==
    [][\A d \in Drivers :
          (/\ HandleOffer(d)
           /\ ActsAsCoordinator(d)
           /\ Next1(d).offer.driver_id = d
           /\ ~Last(pass'[Next1(d).offer.passenger_id].offers).status)
          => LET p == Next1(d).offer.passenger_id
             IN /\ \E i \in 1..Len(DeclinedDrivers(driver'[d], p)) :
                      DeclinedDrivers(driver'[d], p)[i] = d
                /\ Len(mailbox'[d]) > 0
                /\ Last(mailbox'[d]) = [type |-> "CoordinatesRequest", passenger_id |-> p]]_vars

\* The passenger program is stopped while passenger p waits in handle_recive,
\* its end of the stream closing with the process; main may be run again for
\* the same passengers.json.
PassengerKilled(p) ==
    /\ pass[p].pc = "recv"
    /\ pass[p].requests < MaxRequests
    /\ LET c == pass[p].stream
       IN /\ pass' = [pass EXCEPT ![p] =
                        [NewPassenger EXCEPT !.requests = pass[p].requests]]
          /\ sock' = Collect([sock EXCEPT ![c].rreader = FALSE, ![c].down = <<>>],
                             driver, pass')
    /\ UNCHANGED <<alive, driver, mailbox, probing, backlog, timers>>

\* The ring of one while the passenger program is stopped and run again.
NextRerun ==
    \/ NextSolo
    \/ PassengerKilled(9)

SpecRerun == InitAlone /\ [][NextRerun]_vars

\* C27: StoreTrip for a passenger id already in pending_trips leaves
\* pending_trips and declined as they were; StoreTrip for an id not in
\* pending_trips inserts (origin, destination) under the id and removes
\* declined[id].
C27_StoreTripFrame ==
    [][\A d \in Drivers :
          HandleStoreTrip(d) =>
             LET m == Next1(d)
             IN IF m.id \in Pending(d)
                THEN /\ driver'[d].passengers_trips = driver[d].passengers_trips
                     /\ driver'[d].trips_drivers_declined = driver[d].trips_drivers_declined
                ELSE /\ IsSome(driver'[d].passengers_trips)
                     /\ Unwrap(driver'[d].passengers_trips) =
                           MapInsert(IF IsSome(driver[d].passengers_trips)
                                     THEN Unwrap(driver[d].passengers_trips)
                                     ELSE EmptyMap,
                                     m.id, <<m.origin, m.destination>>)
                     /\ m.id \notin Declined(d)'
                     /\ \A q \in Declined(d) \ {m.id} :
                           DeclinedDrivers(driver'[d], q) = DeclinedDrivers(driver[d], q)]_vars

\* C28: on SendTripEnded{p} the coordinator sends TripEnded to passenger p
\* only when in_flight (started_trips) holds an entry for p, and then removes
\* that entry and pending_trips[p] in the same step; with no entry for p it
\* sends the passenger nothing.
C28_TripEndedOnlyForInFlight ==
    [][\A d \in Drivers :
          (HandleSendTripEnded(d) /\ ActsAsCoordinator(d)) =>
             LET p == Next1(d).passenger_id
             IN IF p \in InFlight(d)
                THEN /\ mailbox'[d] = Append(Tail(mailbox[d]), SendToPassenger(TripEnded, p))
                     /\ Cardinality(DOMAIN driver'[d].started_trips) =
                           Cardinality(DOMAIN driver[d].started_trips) - 1
                     /\ p \notin Pending(d)'
                ELSE mailbox'[d] = Tail(mailbox[d])]_vars

\* Driver 0 is on a trip with passenger 2, as SpecTrip leaves the ring once
\* driver 0 has accepted passenger 2; the coordinator, driver 2, is free.
InitOneRiding ==
    /\ alive = [d \in Drivers |-> d \in {0, 2}]
    /\ driver = [d \in Drivers |->
          CASE d = 0 -> [RingDriver(0, 2) EXCEPT !.status = "Busy"]
            [] d = 2 -> [RingDriver(2, 0) EXCEPT
                            !.free_drivers_position =
                                Some((0 :> coordinates(0)) @@ (2 :> coordinates(2))),
                            !.passengers = Some(2 :> <<PassengerEnd(2), 2, 1>>),
                            !.passengers_trips = Some(2 :> <<location(2), destination(2)>>),
                            !.started_trips = (0 :> 2)]
            [] OTHER -> NewDriver]
    /\ mailbox = [d \in Drivers |-> <<>>]
    /\ probing = [d \in Drivers |-> 0]
    /\ backlog = [d \in Drivers |-> <<>>]
    /\ sock = (<<0, 2, 1>> :> [NewStream EXCEPT !.acc = "open"]) @@
              (<<2, 0, 1>> :> [NewStream EXCEPT !.acc = "open"]) @@
              (<<PassengerEnd(2), 2, 1>> :> [NewStream EXCEPT !.acc = "open"])
    /\ timers = [d \in Drivers |->
          IF d = 0 THEN <<[passenger_id |-> 2, coordinator |-> FALSE]>> ELSE <<>>]
    /\ pass = [p \in Passengers |->
          IF p = 2 THEN RidingPassenger(2, 0) ELSE NewPassenger]

\* Two more passengers ask for trips while driver 0 is on its trip.
SpecOverlap == InitOneRiding /\ [][NextBusy]_vars

\* C29: SelectDriver{p} uses the snapshot gathered for p, also when the
\* gathers for two passengers overlap: when the coordinator handles
\* SelectDriver{p}, free_drivers_position is the map the CoordinatesResponse
\* for p brought, in which a driver is a key only if it was Available when
\* the gather passed through it.
C29_SelectUsesOwnSnapshot ==
    [][\A d \in Drivers :
          HandleSelectDriver(d) =>
             driver[d].free_drivers_position = Some(Next1(d).gathered)]_vars

\* The completions scheduled for driver d and not yet carried out: TripEnded
\* messages waiting to spawn their task, tasks asleep, and ChangeStatus
\* messages the woken tasks have sent.
Completions(d) ==
    Len(SelectSeq(mailbox[d], LAMBDA m : m.type \in {"TripEnded", "ChangeStatus"}))
       + Len(timers[d])

\* C30: each accepted offer makes the driver Busy and schedules exactly one
\* completion: in every reachable state a driver is Busy iff exactly one
\* completion of a trip is pending for it and Available iff none is, so a
\* ChangeStatus only ever finds the driver Busy.
C30_BusyIffOneCompletion ==
    \A d \in Drivers : alive[d] =>
        /\ driver[d].status = "Busy" <=> Completions(d) = 1
        /\ driver[d].status = "Available" <=> Completions(d) = 0

\* A driver that accepted an offer is Busy while its trip task sleeps.
C30_BusyOnTrip ==
    \E d \in Drivers : \E p \in Passengers :
        /\ driver[d].status = "Busy"
        /\ Len(timers[d]) = 1
        /\ timers[d][1].passenger_id = p
        /\ \E i \in 1..Len(pass[p].offers) :
              pass[p].offers[i].driver = d /\ pass[p].offers[i].status

\* C31: an UnresolvedTrip{p, d} is emitted only by the coordinator, in
\* response to a DriverConnected{d} received while in_flight[d] = p
\* (started_trips); a driver that is not the coordinator forwards
\* DriverConnected to the right and emits no UnresolvedTrip.
C31_OnlyCoordinatorEmitsUnresolvedTrip ==
    [][\A d \in Drivers :
          HandleDriverConnected(d) =>
             LET id == Next1(d).driver_id
                 sent == SubSeq(mailbox'[d], Len(mailbox[d]), Len(mailbox'[d]))
                 emits == \E i \in 1..Len(sent) :
                             /\ sent[i].type = "SendToRight"
                             /\ sent[i].msg.tag = "UnresolvedTrip"
             IN IF driver[d].coordinator_id = d
                THEN emits <=> id \in DOMAIN driver[d].started_trips
                ELSE /\ ~emits
                     /\ sent = <<SendToRight(DriverConnected(id))>>]_vars

\* The messages a step of driver d appended to its own mailbox.
Posted(d) == SubSeq(mailbox'[d], Len(mailbox[d]), Len(mailbox'[d]))

\* C32: an OfferToDriver{driver_id, passenger_id} is decided only by the
\* driver it names, which produces one TripResponse carrying its own id;
\* every other driver, the coordinator included, forwards the offer to the
\* right unchanged, changes none of its own state and decides nothing.
C32_OnlyNamedDriverDecides ==
    [][\A d \in Drivers :
          /\ (HandleOfferToDriver(d) /\ Next1(d).offer.driver_id # d)
                => /\ Posted(d) = <<SendToRight(Next1(d).offer)>>
                   /\ driver' = driver /\ pass' = pass
          /\ (HandleOffer(d) /\ Next1(d).offer.driver_id # d)
                => /\ Posted(d) = <<SendToRight(Next1(d).offer)>>
                   /\ driver' = driver /\ pass' = pass
          /\ (HandleOffer(d) /\ Next1(d).offer.driver_id = d)
                => LET p == Next1(d).offer.passenger_id
                       answers == SelectSeq(Posted(d), LAMBDA m :
                          \/ m.type = "SendToPassenger" /\ m.msg.tag = "TripResponse"
                          \/ m.type = "SendToRight" /\ m.msg.tag = "TripResponse")
                   IN /\ Len(answers) = 1
                      /\ answers[1].msg.driver_id = d
                      /\ answers[1].msg.passenger_id = p
                      /\ \A e \in Drivers \ {d} : driver'[e] = driver[e]]_vars

\* An offer naming another driver has been forwarded by a driver it passed,
\* and the named driver has answered an offer.
C32_OfferForwardedAndDecided ==
    /\ \E d \in Drivers : \E i \in 1..Len(mailbox[d]) :
          /\ mailbox[d][i].type = "SendToRight"
          /\ mailbox[d][i].msg.tag = "OfferToDriver"
          /\ mailbox[d][i].msg.driver_id # d
    /\ \E p \in Passengers : \E i \in 1..Len(pass[p].offers) :
          pass[p].offers[i].driver = 0

\* probing[d] while TcpStream::connect has returned the stream <<d, t, k>> for
\* the offset i and the closure of ConnectToRight has not run yet.
Held(i, k) == 0 - (i * (MaxGen + 1) + k)

HeldOffset(n) == (0 - n) \div (MaxGen + 1)

HeldGen(n) == (0 - n) % (MaxGen + 1)

\* TcpStream::connect succeeded: the listener of the target can accept the
\* stream from now on, before the connecting actor is resumed.
ProbeEstablished(d) ==
    /\ alive[d]
    /\ probing[d] \in 1..(MAX_DRIVERS - 1)
    /\ LET t == ProbeTarget(d, probing[d])
       IN /\ alive[t]
          /\ FreeGens(d, t) # {}
          /\ LET k == Min(FreeGens(d, t))
                 c == <<d, t, k>>
             IN /\ backlog' = [backlog EXCEPT ![t] = Append(@, c)]
                /\ sock' = sock @@ (c :> NewStream)
                /\ probing' = [probing EXCEPT ![d] = Held(probing[d], k)]
    /\ UNCHANGED <<alive, driver, mailbox, timers, pass>>

\* The actor is resumed with Some((stream, driver_id)): the closure sets the
\* right neighbour and do_sends the Connect behind what the mailbox holds.
ProbeResumed(d) ==
    /\ alive[d]
    /\ probing[d] < 0
    /\ LET t == ProbeTarget(d, HeldOffset(probing[d]))
           c == <<d, t, HeldGen(probing[d])>>
           me == [id |-> d, coordinator_id |-> driver[d].coordinator_id]
           jc == JoinCoordinator(me, t)
       IN /\ driver' = [driver EXCEPT ![d].driver_right_write = c,
                                      ![d].driver_right_id = t,
                                      ![d].coordinator_id = jc.kept]
          /\ mailbox' = [mailbox EXCEPT ![d] =
                            Append(@, SendToRight(Connect("Driver", d, jc.sent)))]
          /\ sock' = Collect(sock, driver', pass)
    /\ probing' = [probing EXCEPT ![d] = 0]
    /\ UNCHANGED <<alive, backlog, timers, pass>>

\* Drivers start in any order, the connect of a probe and the resumption of
\* the connecting actor being two steps.
NextRace ==
    \/ \E d \in Drivers : JoinAllowed /\ Start(d)
    \/ \E d \in Drivers : HandleConnections(d)
    \/ \E d \in Drivers : ConnectToRight(d)
    \/ \E d \in Drivers : ProbeRefused(d)
    \/ \E d \in Drivers : ProbeEstablished(d)
    \/ \E d \in Drivers : ProbeResumed(d)
    \/ \E d \in Drivers : ProbeExhausted(d)
    \/ \E d \in Drivers : HandleSendToRight(d)
    \/ \E d \in Drivers : HandleNewCoordinator(d)
    \/ \E d \in Drivers : HandleDisconnect(d)
    \/ \E d \in Drivers : HandleNewConnection(d)
    \/ \E d \in Drivers : HandleDriverConnected(d)
    \/ \E c \in DOMAIN sock : LeftReader(c)
    \/ \E c \in DOMAIN sock : RightReaderDisconnect(c)
    \/ \E c \in DOMAIN sock : RightReaderEof(c)

SpecRace == InitJoin /\ [][NextRace]_vars

\* The actor of d is suspended in Handler<NewConnection>: it awaits the first
\* read of a stream that driver e opened and on which nothing has been
\* written, while e's Connect for that stream waits in e's mailbox.
AwaitsConnect(d, e) ==
    /\ alive[d] /\ alive[e]
    /\ probing[d] = 0
    /\ mailbox[d] # <<>>
    /\ Next1(d).type = "NewConnection"
    /\ LET c == Next1(d).stream
       IN /\ c \in DOMAIN sock
          /\ c[1] = e
          /\ sock[c].data = <<>>
          /\ driver[e].driver_right_write = c
          /\ \E i \in 2..Len(mailbox[e]) :
                /\ mailbox[e][i].type = "SendToRight"
                /\ mailbox[e][i].msg.tag = "Connect"

\* C33: joining never deadlocks: no reachable state has two driver actors
\* each suspended in NewConnection waiting for a Connect that the other has
\* queued behind its own suspended handler.
C33_NoMutualWait ==
    \A d, e \in Drivers : d # e => ~(AwaitsConnect(d, e) /\ AwaitsConnect(e, d))

----------------------------------------------------------------------------
\* Drivers 0 and 1 start first; driver 0's process is killed before driver 2
\* is started, and what it had written can still be read by its neighbour.
\* The runs are those in which a probe that found no port is not resumed.
NextStale ==
    \/ ~alive[1] /\ ~alive[2] /\ Start(0)
    \/ \E d \in {1, 2} : JoinAllowed /\ Start(d)
    \/ ~alive[2] /\ Crash(0)
    \/ RingStep

SpecStale == InitJoin /\ [][NextStale]_vars

\* The live drivers whose coordinator_id is their own id.
SelfCoordinators == {d \in Drivers : alive[d] /\ driver[d].coordinator_id = d}

\* C34: in every reachable state, not only at rest, at most one live driver
\* has coordinator_id equal to its own id, so no two drivers accept
\* passenger connections at the same moment.
C34_AtMostOneCoordinator == Cardinality(SelfCoordinators) <= 1

----------------------------------------------------------------------------
\* C35: a driver whose coordinator_id is None does not act as coordinator:
\* when it handles TripResponse, SendTripEnded or DriverConnected it forwards
\* the message to its right neighbour and records nothing, leaving in_flight
\* (started_trips), declined and the rest of its state as they were.
C35_NoneNeverCoordinates ==
    [][\A d \in Drivers :
          /\ driver[d].coordinator_id = None
          /\ \/ HandleTripResponse(d)
             \/ HandleSendTripEnded(d)
             \/ HandleDriverConnected(d)
          => /\ driver'[d] = driver[d]
             /\ Len(Posted(d)) = 1
             /\ Posted(d)[1].type = "SendToRight"
             /\ Posted(d)[1].msg.tag = Next1(d).type]_vars

----------------------------------------------------------------------------
\* The ring of drivers 0, 1 and 2 at rest (coordinator 2) serves one
\* passenger, and the process of driver 1 may be killed at any time: driver 0
\* reads the end of its right stream and recloses the ring over driver 2.
NextGone ==
    \/ Crash(1)
    \/ \E p \in Passengers : NoRider /\ PassengerCreate(p)
    \/ \E d \in Drivers : ConnectToRight(d)
    \/ \E d \in Drivers : ProbeRefused(d)
    \/ \E d \in Drivers : ProbeConnected(d)
    \/ \E d \in Drivers : HandleNewCoordinator(d)
    \/ \E d \in Drivers : HandleDisconnect(d)
    \/ \E d \in Drivers : HandleDriverConnected(d)
    \/ \E d \in Drivers : HandleUnresolvedTrip(d)
    \/ \E c \in DOMAIN sock : RightReaderEof(c)
    \/ Serve

SpecGone == InitRing /\ [][NextGone]_vars

\* C36: an OfferToDriver{driver_id = d} makes at most one traversal of the
\* ring, also when d has left the ring: the offers that reach the coordinator
\* that issued them name the coordinator itself, every other offer having
\* been consumed or dropped on its way round.
C36_OfferAtMostOneTraversal ==
    [][\A d \in Drivers :
          HandleOffer(d) /\ driver[d].coordinator_id = d
             => Next1(d).offer.driver_id = d]_vars

----------------------------------------------------------------------------
\* The drivers whose trip task for passenger p still sleeps.
OnTrip(p) ==
    {e \in Drivers : \E i \in 1..Len(timers[e]) : timers[e][i].passenger_id = p}

\* C37: the coordinator sends TripEnded to a passenger only after the trip
\* timer of the driver that accepted the passenger has expired; a third driver
\* joining the ring does not end a trip that is still in flight.
C37_TripEndedAfterTimer ==
    [][\A d \in Drivers :
          HandleSendTripEnded(d) /\ ActsAsCoordinator(d)
             => OnTrip(Next1(d).passenger_id) = {}]_vars

----------------------------------------------------------------------------
\* The ring of drivers 0, 1 and 2 at rest as SpecPair leaves it when drivers
\* 0 and 1 were started at once: driver 1 has not been told the coordinator.
InitUnaware ==
    /\ alive = [d \in Drivers |-> d \in 0..2]
    /\ driver = [d \in Drivers |->
                    CASE d = 1 -> [RingOfThree(1) EXCEPT !.coordinator_id = None]
                      [] d \in {0, 2} -> RingOfThree(d)
                      [] OTHER -> NewDriver]
    /\ mailbox = [d \in Drivers |-> <<>>]
    /\ probing = [d \in Drivers |-> 0]
    /\ backlog = [d \in Drivers |-> <<>>]
    /\ sock = [c \in {<<0, 1, 1>>, <<1, 2, 1>>, <<2, 0, 1>>} |->
                  [NewStream EXCEPT !.acc = "open"]]
    /\ timers = [d \in Drivers |-> <<>>]
    /\ pass = [p \in Passengers |-> NewPassenger]

\* Passengers connect to the coordinator and ask that ring for a trip: the
\* steps up to the gather of the drivers' coordinates.
NextGather ==
    \/ \E p \in Passengers : RidersLeft /\ PassengerCreate(p)
    \/ \E p \in Passengers : PassengerConnected(p)
    \/ \E p \in Passengers : PassengerConnectRes(p)
    \/ \E d \in Drivers : HandleConnections(d)
    \/ \E d \in Drivers : HandleNewConnection(d)
    \/ \E d \in Drivers : HandleAddPassengerStream(d)
    \/ \E c \in DOMAIN sock : PassengerTask(c)
    \/ \E c \in DOMAIN sock : PassengerReader(c)
    \/ \E c \in DOMAIN sock : LeftReader(c)
    \/ \E d \in Drivers : HandleSendToRight(d)
    \/ \E d \in Drivers : HandleStoreTrip(d)
    \/ \E d \in Drivers : HandleCoordinatesRequest(d)
    \/ \E d \in Drivers : HandleCoordinatesResponse(d)
    \/ \E d \in Drivers : HandleUnresolvedMsgs(d)

SpecUnaware == InitUnaware /\ [][NextGather]_vars

----------------------------------------------------------------------------
\* C38: the gather message is not lost, whether or not every member of the
\* ring knows the coordinator: a driver that handles CoordinatesResponse{p}
\* posts exactly one message for it, SelectDriver{p} to itself when it is the
\* coordinator and the CoordinatesResponse{p} to its right neighbour when it
\* is not.
C38_GatherNotLost ==
    [][\A d \in Drivers :
          HandleCoordinatesResponse(d) =>
             /\ Len(Posted(d)) = 1
             /\ IF driver[d].coordinator_id = d
                THEN /\ Posted(d)[1].type = "SelectDriver"
                     /\ Posted(d)[1].passenger_id = Next1(d).passenger_id
                ELSE /\ Posted(d)[1].type = "SendToRight"
                     /\ Posted(d)[1].msg.tag = "CoordinatesResponse"
                     /\ Posted(d)[1].msg.passenger_id = Next1(d).passenger_id]_vars

----------------------------------------------------------------------------
\* |a.x - b.x| + |a.y - b.y| in the integers.
TrueDistance(a, b) == Abs(a[1] - b[1]) + Abs(a[2] - b[2])

\* C39: for every position of the coordinator's snapshot and every origin of
\* a trip it keeps, manhattan_distance returns the true Manhattan distance,
\* also when that distance is 256 or more.
C39_ManhattanIsTrueDistance ==
    \A d \in Drivers :
        LET me == driver[d]
        IN IsSome(me.free_drivers_position) /\ IsSome(me.passengers_trips) =>
              \A x \in DOMAIN Unwrap(me.free_drivers_position) :
              \A p \in DOMAIN Unwrap(me.passengers_trips) :
                  manhattan_distance(Unwrap(me.free_drivers_position)[x],
                                     Unwrap(me.passengers_trips)[p][1])
                    = TrueDistance(Unwrap(me.free_drivers_position)[x],
                                   Unwrap(me.passengers_trips)[p][1])

====
